---- MODULE Spec2Model ----
(***************************************************************************)
(* Model of the RPC gateway of the daemon (src/src/Rpc/RpcServer.cpp):     *)
(* the flat HTTP method table, the availability gate, the JSON-RPC         *)
(* sub-dispatcher and the request handlers.                                *)
(*                                                                         *)
(* One HTTP request is handled to completion by one step (ProcessRequest). *)
(* The external collaborators (core, currency, miner, p2p, protocol) are   *)
(* black boxes: every call a handler makes is appended to `calls`, and the *)
(* value a collaborator returns is drawn from the set of values it can     *)
(* return (the `eng` record of a step).                                    *)
(***************************************************************************)
EXTENDS Integers, Sequences, FiniteSets, TLC

\* ---------------------------------------------------------------- bounds

\* Largest blockchain height the model reaches (the chain holds at least the
\* genesis block, so the height is in 1..MaxHeight).
MaxHeight == 2

\* Largest JSON-RPC request id a client sends (ids are 1..MaxId).
MaxId == 1

\* Most blocks one get_blocks call returns: the model's value of the cap,
\* below MaxHeight so that a chain can hold more blocks than one call returns.
MaxCount == 1

\* Largest reserve_size getblocktemplate accepts (the model's value of
\* TX_EXTRA_NONCE_MAX_COUNT).
MaxReserve == 2

\* ------------------------------------------------------------- constants

CORE_RPC_STATUS_OK == "OK"

COMMAND_RPC_GET_BLOCKS_FAST_MAX_COUNT == MaxCount

STATUS_200 == "STATUS_200"
STATUS_404 == "STATUS_404"
STATUS_500 == "STATUS_500"

\* JSON-RPC error codes, kept symbolic.
errParseError == "errParseError"
errInvalidRequest == "errInvalidRequest"
errMethodNotFound == "errMethodNotFound"
errInvalidParams == "errInvalidParams"
errInternalError == "errInternalError"
CORE_RPC_ERROR_CODE_WRONG_PARAM == "CORE_RPC_ERROR_CODE_WRONG_PARAM"
CORE_RPC_ERROR_CODE_TOO_BIG_HEIGHT == "CORE_RPC_ERROR_CODE_TOO_BIG_HEIGHT"
CORE_RPC_ERROR_CODE_TOO_BIG_RESERVE_SIZE == "CORE_RPC_ERROR_CODE_TOO_BIG_RESERVE_SIZE"
CORE_RPC_ERROR_CODE_WRONG_WALLET_ADDRESS == "CORE_RPC_ERROR_CODE_WRONG_WALLET_ADDRESS"
CORE_RPC_ERROR_CODE_INTERNAL_ERROR == "CORE_RPC_ERROR_CODE_INTERNAL_ERROR"
CORE_RPC_ERROR_CODE_WRONG_BLOCKBLOB == "CORE_RPC_ERROR_CODE_WRONG_BLOCKBLOB"
CORE_RPC_ERROR_CODE_BLOCK_NOT_ACCEPTED == "CORE_RPC_ERROR_CODE_BLOCK_NOT_ACCEPTED"
CORE_RPC_ERROR_CODE_CORE_BUSY == "CORE_RPC_ERROR_CODE_CORE_BUSY"

\* ----------------------------------------------------------------- state

VARIABLES
  m_restricted_rpc,   \* RpcServer::m_restricted_rpc
  m_cors_domain,      \* RpcServer::m_cors_domain
  m_fee_address,      \* RpcServer::m_fee_address
  m_view_key,         \* RpcServer::m_view_key ("" is NULL_SECRET_KEY)
  testnet,            \* m_core.currency().isTestnet()
  synchronized,       \* m_p2p.get_payload_object().isSynchronized()
  height,             \* m_core.get_current_blockchain_height()
  pc,                 \* "idle", "done" (a request was handled, its response not yet
                      \* sent) or "crashed" (the process was stopped by a memory fault)
  request,            \* the HttpRequest handled: [url, body]
  response,           \* the HttpResponse of that request
  calls,              \* the collaborator calls made while handling it
  invoked,            \* the handler functions entered while handling it
  outcome,            \* how the request's processing ended
  engine              \* what the collaborators answered while handling it

vars == <<m_restricted_rpc, m_cors_domain, m_fee_address, m_view_key, testnet,
          synchronized, height, pc, request, response, calls, invoked, outcome,
          engine>>

config == <<m_restricted_rpc, m_cors_domain, m_fee_address, m_view_key>>
node == <<testnet, synchronized, height>>
handled == <<pc, request, response, calls, invoked, outcome, engine>>

\* ----------------------------------------------------------- small values

None == [has |-> FALSE]
Some(x) == [has |-> TRUE, v |-> x]

Ids == 1 .. MaxId
CorsDomains == {"", "*"}
FeeAddresses == {"", "KfeeAddr"}
ViewKeys == {"", "viewkey"}

\* A fresh HttpResponse: success status, no header, empty body.
NewResponse == [status |-> STATUS_200, headers |-> <<>>, body |-> [kind |-> "empty"]]

setStatus(resp, s) == [resp EXCEPT !.status = s]
setBody(resp, b) == [resp EXCEPT !.body = b]
addHeader(resp, name, value) == [resp EXCEPT !.headers = Append(@, <<name, value>>)]

\* ------------------------------------------------------ availability gate

\* Fault variant of isCoreReady: test-network mode is not looked at.
isCoreReady_synchronizedOnly ==
  [ready |-> synchronized,
   calls |-> <<"p2p.get_payload_object", "protocol.isSynchronized">>]

\* isTestnet() || isSynchronized(): the right operand runs only when the left
\* one is false.
isCoreReady ==
  IF testnet
    THEN [ready |-> TRUE, calls |-> <<"currency.isTestnet">>]
    ELSE [ready |-> synchronized,
          calls |-> <<"currency.isTestnet", "p2p.get_payload_object",
                      "protocol.isSynchronized">>]

\* ------------------------------------------------------- handler results

\* A handler that returned `ret`, leaving `res` in its response structure.
Returned(ret, res, cs) == [ret |-> ret, res |-> res, calls |-> cs, threw |-> None]

\* A handler that raised `err` after writing `res` into its response structure.
Raised(err, res, cs) == [ret |-> FALSE, res |-> res, calls |-> cs, threw |-> Some(err)]

\* throw JsonRpc::JsonRpcError{code, message}
JsonRpcError(code, message) == [kind |-> "JsonRpcError", code |-> code, message |-> message]

\* Any other failure derived from std::exception, raised by a collaborator.
StdException(what) == [kind |-> "std::exception", code |-> "", message |-> what]

\* Id of the canonical block at height h: NULL_HASH when there is none.
NULL_HASH == 0
getBlockIdByHeight(h) == IF h < height THEN h + 1 ELSE NULL_HASH

\* --------------------------------------------------------- binary handlers

\* m_core.findBlockchainSupplement(block_ids, maxCount, totalBlockCount,
\* startBlockIndex): the ids of the canonical blocks from the height where
\* the locator meets the chain (startBlockIndex, an answer of the engine),
\* at most maxCount of them.
findBlockchainSupplement(startBlockIndex, maxCount) ==
  LET left == height - startBlockIndex
      n == IF left < maxCount THEN left ELSE maxCount
  IN [i \in 1 .. n |-> getBlockIdByHeight(startBlockIndex + i - 1)]

\* The engine calls of the loop over the supplement; have_block is called
\* inside an assert, so only in a build without NDEBUG.
get_blocks_loop_calls(n, ndebug) ==
  IF ndebug
    THEN [i \in 1 .. n |-> "core.getBlock"]
    ELSE [i \in 1 .. 2 * n |-> IF i % 2 = 1 THEN "core.have_block" ELSE "core.getBlock"]

\* The handler after its two checks of the locator, with the engine asked
\* for at most maxCount blocks.
get_blocks_supplement(eng, maxCount) ==
  Returned(TRUE,
           [status |-> CORE_RPC_STATUS_OK,
            current_height |-> height,
            start_height |-> eng.startBlockIndex,
            blocks |-> findBlockchainSupplement(eng.startBlockIndex, maxCount)],
           <<"core.getBlockIdByHeight", "core.findBlockchainSupplement">>
             \o get_blocks_loop_calls(
                  Len(findBlockchainSupplement(eng.startBlockIndex, maxCount)),
                  eng.ndebug))

\* Fault variant of on_get_blocks: the last id of the locator is not compared
\* with the id of the block at height 0.
on_get_blocks_anyTail(req, eng) ==
  IF req.block_ids = <<>>
    THEN Returned(FALSE, [status |-> "Failed"], <<>>)
    ELSE get_blocks_supplement(eng, COMMAND_RPC_GET_BLOCKS_FAST_MAX_COUNT)

\* Fault variant of on_get_blocks: the engine is asked for as many blocks as
\* the chain has.
on_get_blocks_uncapped(req, eng) ==
  IF req.block_ids = <<>>
    THEN Returned(FALSE, [status |-> "Failed"], <<>>)
  ELSE IF req.block_ids[Len(req.block_ids)] # getBlockIdByHeight(0)
    THEN Returned(FALSE, [status |-> "Failed"], <<"core.getBlockIdByHeight">>)
  ELSE get_blocks_supplement(eng, height)

on_get_blocks(req, eng) ==
  IF req.block_ids = <<>>
    THEN Returned(FALSE, [status |-> "Failed"], <<>>)
  ELSE IF req.block_ids[Len(req.block_ids)] # getBlockIdByHeight(0)
    THEN Returned(FALSE, [status |-> "Failed"], <<"core.getBlockIdByHeight">>)
  ELSE get_blocks_supplement(eng, COMMAND_RPC_GET_BLOCKS_FAST_MAX_COUNT)

on_query_blocks(req, eng) ==
  IF ~eng.ok
    THEN Returned(FALSE, [status |-> "Failed to perform query"], <<"core.queryBlocks">>)
    ELSE Returned(TRUE,
                  [status |-> CORE_RPC_STATUS_OK, start_height |-> eng.startHeight,
                   current_height |-> height, full_offset |-> eng.startHeight],
                  <<"core.queryBlocks">>)

on_query_blocks_lite(req, eng) ==
  IF ~eng.ok
    THEN Returned(FALSE, [status |-> "Failed to perform query"], <<"core.queryBlocksLite">>)
    ELSE Returned(TRUE,
                  [status |-> CORE_RPC_STATUS_OK, startHeight |-> eng.startHeight,
                   currentHeight |-> height, fullOffset |-> eng.startHeight],
                  <<"core.queryBlocksLite">>)

on_get_indexes(req, eng) ==
  IF ~eng.ok
    THEN Returned(TRUE, [status |-> "Failed", o_indexes |-> <<>>],
                  <<"core.get_tx_outputs_gindexs">>)
    ELSE Returned(TRUE, [status |-> CORE_RPC_STATUS_OK, o_indexes |-> eng.outputIndexes],
                  <<"core.get_tx_outputs_gindexs">>)

\* The engine fills res.outs itself, also on the calls it fails.
on_get_random_outs(req, eng) ==
  IF ~eng.ok
    THEN Returned(TRUE, [status |-> "Failed", outs |-> eng.outs],
                  <<"core.get_random_outs_for_amounts">>)
    ELSE Returned(TRUE, [status |-> CORE_RPC_STATUS_OK, outs |-> eng.outs],
                  <<"core.get_random_outs_for_amounts">>)

\* eng.added: for each transaction the engine reports as added, whether it
\* serializes. The loop stops at the first that does not.
RECURSIVE SerializedPrefix(_)
SerializedPrefix(added) ==
  IF added = <<>> \/ ~Head(added) THEN <<>>
  ELSE <<"txblob">> \o SerializedPrefix(Tail(added))

onGetPoolChanges(req, eng) ==
  Returned(TRUE,
           [status |-> IF \E i \in 1 .. Len(eng.added) : ~eng.added[i]
                         THEN "Internal error" ELSE CORE_RPC_STATUS_OK,
            isTailBlockActual |-> eng.tailActual,
            addedTxs |-> SerializedPrefix(eng.added)],
           <<"core.getPoolChanges">>)

onGetPoolChangesLite(req, eng) ==
  Returned(TRUE,
           [status |-> CORE_RPC_STATUS_OK, isTailBlockActual |-> eng.tailActual],
           <<"core.getPoolChangesLite">>)

\* ----------------------------------------------------------- JSON handlers

on_get_info(req, eng) ==
  Returned(TRUE,
           [status |-> CORE_RPC_STATUS_OK,
            height |-> height,
            last_known_block_index |->
              (IF eng.observedHeight > 1 THEN eng.observedHeight ELSE 1) - 1,
            top_block_hash |-> getBlockIdByHeight(height - 1),
            fee_address |-> m_fee_address],
           <<"core.get_current_blockchain_height", "core.getNextBlockDifficulty",
             "core.get_blockchain_total_transactions", "core.get_pool_transactions_count",
             "core.get_alternative_blocks_count", "p2p.get_connections_count",
             "p2p.get_outgoing_connections_count", "p2p.getPeerlistManager",
             "p2p.getPeerlistManager", "protocol.getObservedHeight",
             "core.get_current_blockchain_height", "core.getBlockIdByHeight",
             "core.getMinimalFee", "core.getMinimalFee", "currency.formatAmount",
             "core.getStartTime", "core.getCurrentBlockMajorVersion",
             "core.getTotalGeneratedAmount", "currency.formatAmount">>)

on_get_height(req, eng) ==
  Returned(TRUE, [status |-> CORE_RPC_STATUS_OK, height |-> height],
           <<"core.get_current_blockchain_height">>)

\* A read beyond the end of a buffer that stops the process.
MemoryFault == [kind |-> "fault", code |-> "", message |-> "read beyond the buffer"]

\* A requested hash is "hash" (hex of the hash size), "short" (hex of fewer
\* bytes) or "nothex". Only a hash that is not hex ends the loop; for one of
\* the wrong size the status is set and the loop goes on: the entry is still
\* pushed to the query, read as a Hash from a buffer that is shorter, which
\* is undefined: the hash holds what lies behind the buffer, or the process
\* is stopped by a memory fault (eng.overreadFaults). The status is set to
\* OK after the query whatever it was.
on_get_transactions(req, eng) ==
  LET stops == {i \in 1 .. Len(req.txs_hashes) : req.txs_hashes[i] = "nothex"}
      reads == {i \in 1 .. Len(req.txs_hashes) :
                  /\ req.txs_hashes[i] = "short"
                  /\ \A k \in stops : i < k}
  IN
  IF eng.overreadFaults /\ reads # {}
    THEN Raised(MemoryFault, [status |-> "Failed, size of data mismatch", queried |-> <<>>],
                <<>>)
  ELSE IF stops # {}
    THEN Returned(TRUE,
                  [status |-> "Failed to parse hex representation of transaction hash",
                   queried |-> <<>>],
                  <<>>)
    ELSE Returned(TRUE, [status |-> CORE_RPC_STATUS_OK, queried |-> req.txs_hashes],
                  <<"core.getTransactions">>)

\* eng.txParses, eng.outputsFound, eng.feeAmount: what parsing the blob and
\* scanning its outputs for the fee account give.
masternode_check_incoming_tx(eng) ==
  IF ~eng.txParses THEN FALSE
  ELSE IF ~eng.outputsFound THEN FALSE
  ELSE eng.feeAmount # 0

\* What masternode_check_incoming_tx calls, in order.
masternode_check_calls(eng) ==
  <<"parseAndValidateTransactionFromBinaryArray">>
    \o (IF eng.txParses THEN <<"findOutputsToAccount">> ELSE <<>>)
    \o (IF masternode_check_incoming_tx(eng) THEN <<"currency.formatAmount">> ELSE <<>>)

\* Fault variant of on_send_raw_tx: the fee check is made whenever a fee
\* address is set, and its answer is not looked at.
on_send_raw_tx_feeIgnored(req, eng) ==
  IF req.tx_as_hex = "nothex"
    THEN Returned(TRUE, [status |-> "Failed"], <<>>)
  ELSE IF ~eng.handled
    THEN Returned(TRUE, [status |-> "Failed"], <<"core.handle_incoming_tx">>)
  ELSE IF eng.m_verification_failed
    THEN Returned(TRUE, [status |-> "Failed"], <<"core.handle_incoming_tx">>)
  ELSE IF ~eng.m_should_be_relayed
    THEN Returned(TRUE, [status |-> "Not relayed"], <<"core.handle_incoming_tx">>)
  ELSE IF m_fee_address # "" /\ m_view_key # "" /\ masternode_check_incoming_tx(eng)
    THEN IF ~masternode_check_incoming_tx(eng)
           THEN Returned(TRUE, [status |-> "Not relayed due to lack of node fee"],
                         <<"core.handle_incoming_tx">> \o masternode_check_calls(eng))
           ELSE Returned(TRUE, [status |-> CORE_RPC_STATUS_OK],
                         <<"core.handle_incoming_tx">> \o masternode_check_calls(eng)
                           \o <<"protocol.relay_transactions">>)
  ELSE Returned(TRUE, [status |-> CORE_RPC_STATUS_OK],
                <<"core.handle_incoming_tx", "protocol.relay_transactions">>)

\* Fault variant of on_send_raw_tx: m_verification_failed is not looked at.
on_send_raw_tx_unverified(req, eng) ==
  IF req.tx_as_hex = "nothex"
    THEN Returned(TRUE, [status |-> "Failed"], <<>>)
  ELSE IF ~eng.handled
    THEN Returned(TRUE, [status |-> "Failed"], <<"core.handle_incoming_tx">>)
  ELSE IF ~eng.m_should_be_relayed
    THEN Returned(TRUE, [status |-> "Not relayed"], <<"core.handle_incoming_tx">>)
  ELSE IF m_fee_address # "" /\ m_view_key # ""
    THEN IF ~masternode_check_incoming_tx(eng)
           THEN Returned(TRUE, [status |-> "Not relayed due to lack of node fee"],
                         <<"core.handle_incoming_tx">> \o masternode_check_calls(eng))
           ELSE Returned(TRUE, [status |-> CORE_RPC_STATUS_OK],
                         <<"core.handle_incoming_tx">> \o masternode_check_calls(eng)
                           \o <<"protocol.relay_transactions">>)
  ELSE Returned(TRUE, [status |-> CORE_RPC_STATUS_OK],
                <<"core.handle_incoming_tx", "protocol.relay_transactions">>)

on_send_raw_tx(req, eng) ==
  IF req.tx_as_hex = "nothex"
    THEN Returned(TRUE, [status |-> "Failed"], <<>>)
  ELSE IF ~eng.handled
    THEN Returned(TRUE, [status |-> "Failed"], <<"core.handle_incoming_tx">>)
  ELSE IF eng.m_verification_failed
    THEN Returned(TRUE, [status |-> "Failed"], <<"core.handle_incoming_tx">>)
  ELSE IF ~eng.m_should_be_relayed
    THEN Returned(TRUE, [status |-> "Not relayed"], <<"core.handle_incoming_tx">>)
  ELSE IF m_fee_address # "" /\ m_view_key # ""
    THEN IF ~masternode_check_incoming_tx(eng)
           THEN Returned(TRUE, [status |-> "Not relayed due to lack of node fee"],
                         <<"core.handle_incoming_tx">> \o masternode_check_calls(eng))
           ELSE Returned(TRUE, [status |-> CORE_RPC_STATUS_OK],
                         <<"core.handle_incoming_tx">> \o masternode_check_calls(eng)
                           \o <<"protocol.relay_transactions">>)
  ELSE Returned(TRUE, [status |-> CORE_RPC_STATUS_OK],
                <<"core.handle_incoming_tx", "protocol.relay_transactions">>)

on_start_mining(req, eng) ==
  IF m_restricted_rpc
    THEN Returned(FALSE, [status |-> "Failed, restricted handle"], <<>>)
  ELSE IF ~eng.addressParses
    THEN Returned(TRUE, [status |-> "Failed, wrong address"],
                  <<"currency.parseAccountAddressString">>)
  ELSE IF ~eng.minerStarts
    THEN Returned(TRUE, [status |-> "Failed, mining not started"],
                  <<"currency.parseAccountAddressString", "miner.start">>)
  ELSE Returned(TRUE, [status |-> CORE_RPC_STATUS_OK],
                <<"currency.parseAccountAddressString", "miner.start">>)

on_stop_mining(req, eng) ==
  IF m_restricted_rpc
    THEN Returned(FALSE, [status |-> "Failed, restricted handle"], <<>>)
  ELSE IF ~eng.minerStops
    THEN Returned(TRUE, [status |-> "Failed, mining not stopped"], <<"miner.stop">>)
  ELSE Returned(TRUE, [status |-> CORE_RPC_STATUS_OK], <<"miner.stop">>)

\* Fault variant of on_stop_daemon: restricted mode is not looked at.
on_stop_daemon_unrestricted(req, eng) ==
  IF testnet
    THEN Returned(TRUE, [status |-> CORE_RPC_STATUS_OK],
                  <<"currency.isTestnet", "p2p.sendStopSignal">>)
    ELSE Returned(FALSE, [status |-> CORE_RPC_ERROR_CODE_INTERNAL_ERROR],
                  <<"currency.isTestnet">>)

\* Off testnet the status is the error code CORE_RPC_ERROR_CODE_INTERNAL_ERROR
\* assigned to the status string.
on_stop_daemon(req, eng) ==
  IF m_restricted_rpc
    THEN Returned(FALSE, [status |-> "Failed, restricted handle"], <<>>)
  ELSE IF testnet
    THEN Returned(TRUE, [status |-> CORE_RPC_STATUS_OK],
                  <<"currency.isTestnet", "p2p.sendStopSignal">>)
  ELSE Returned(FALSE, [status |-> CORE_RPC_ERROR_CODE_INTERNAL_ERROR],
                <<"currency.isTestnet">>)

on_get_fee_address(req, eng) ==
  IF m_fee_address = ""
    THEN Returned(FALSE, [status |-> CORE_RPC_STATUS_OK, fee_address |-> ""], <<>>)
    ELSE Returned(TRUE, [status |-> CORE_RPC_STATUS_OK, fee_address |-> m_fee_address], <<>>)

on_get_peer_list(req, eng) ==
  Returned(TRUE, [status |-> CORE_RPC_STATUS_OK, peers |-> eng.whitePeers],
           <<"p2p.getPeerlistManager", "p2p.get_peerlist_full">>)

\* The status is left as value-initialized.
on_get_payment_id(req, eng) ==
  IF eng.randThrows
    THEN Raised(JsonRpcError(CORE_RPC_ERROR_CODE_INTERNAL_ERROR,
                             "Internal error: can't generate Payment ID"),
                [status |-> "", payment_id |-> ""], <<>>)
    ELSE Returned(TRUE, [status |-> "", payment_id |-> "pid"], <<>>)

\* -------------------------------------------------------- JSON-RPC methods

\* Unsigned arithmetic of the header's depth field, scaled down to 8 bits.
UintModulus == 2 ^ 8

get_current_blockchain_height == <<"core.get_current_blockchain_height">>

\* Fault variant of on_getblockcount: the count is the index of the top block.
on_getblockcount_topIndex(req, eng) ==
  Returned(TRUE, [status |-> CORE_RPC_STATUS_OK, count |-> height - 1],
           get_current_blockchain_height)

on_getblockcount(req, eng) ==
  Returned(TRUE, [status |-> CORE_RPC_STATUS_OK, count |-> height],
           get_current_blockchain_height)

\* Common::toHex: two hex digits for a byte.
RECURSIVE toHex(_)
toHex(bytes) ==
  IF bytes = <<>> THEN <<>>
  ELSE <<Head(bytes) \div 16, Head(bytes) % 16>> \o toHex(Tail(bytes))

\* Common::podToHex of a block id, an id being one byte here.
podToHex(id) == toHex(<<id>>)

\* A uint64_t as its two 32-bit halves: the value is hi * 2^32 + lo.
UInt64(hi, lo) == [hi |-> hi, lo |-> lo]
\* static_cast<uint32_t>(v) of a uint64_t: the low half.
static_cast_uint32(v) == v.lo

\* req.params: the heights given as positional parameters, each a uint64_t.
\* The response is a string: empty until podToHex writes it.
on_getblockhash(req, eng) ==
  IF Len(req.params) # 1
    THEN Raised(JsonRpcError(CORE_RPC_ERROR_CODE_WRONG_PARAM,
                             "Wrong parameters, expected height"), [hash |-> <<>>], <<>>)
  ELSE IF getBlockIdByHeight(static_cast_uint32(req.params[1])) = NULL_HASH
    THEN Raised(JsonRpcError(CORE_RPC_ERROR_CODE_TOO_BIG_HEIGHT, "To big height"),
                [hash |-> <<>>],
                <<"core.getBlockIdByHeight">> \o get_current_blockchain_height)
  ELSE Returned(TRUE,
                [hash |-> podToHex(getBlockIdByHeight(static_cast_uint32(req.params[1])))],
                <<"core.getBlockIdByHeight">>)

TX_EXTRA_NONCE_MAX_COUNT == MaxReserve

\* Bytes are small numbers; offsets into a byte sequence count from 0.
\* memchr(buf + from, c, ...): the offset of the first byte c at or after
\* offset from, -1 when the buffer has none.
memchr(buf, from, c) ==
  LET hits == {i \in from .. Len(buf) - 1 : buf[i + 1] = c} IN
  IF hits = {} THEN -1 ELSE CHOOSE i \in hits : \A k \in hits : i <= k

\* The loop of slow_memmem from offset from. memchr is given buflen as the
\* length whatever the offset, so past the first round it may read beyond
\* the buffer; a byte found there is beyond `end` and none found is NULL:
\* both return 0, as a search that finds no byte in the buffer does.
RECURSIVE slow_memmem_from(_, _, _)
slow_memmem_from(buf, pat, from) ==
  LET hit == memchr(buf, from, pat[1]) IN
  IF hit = -1 THEN 0
  ELSE IF hit > Len(buf) - Len(pat) THEN 0
  ELSE IF SubSeq(buf, hit + 1, hit + Len(pat)) = pat THEN hit
  ELSE slow_memmem_from(buf, pat, hit + 1)

\* slow_memmem(start_buff, buflen, pat, patlen): the offset of the first
\* occurrence of pat in the buffer, 0 when there is none.
slow_memmem(buf, pat) == slow_memmem_from(buf, pat, 0)

\* slow_memmem reads beyond the buffer: a memchr call past the first round
\* (from > 0) that meets no byte pat[0] before the end of the buffer goes on
\* for up to `from` bytes after it.
RECURSIVE slow_memmem_overreads_from(_, _, _)
slow_memmem_overreads_from(buf, pat, from) ==
  LET hit == memchr(buf, from, pat[1]) IN
  IF hit = -1 THEN from > 0
  ELSE IF hit > Len(buf) - Len(pat) THEN FALSE
  ELSE IF SubSeq(buf, hit + 1, hit + Len(pat)) = pat THEN FALSE
  ELSE slow_memmem_overreads_from(buf, pat, hit + 1)

slow_memmem_overreads(buf, pat) == slow_memmem_overreads_from(buf, pat, 0)

\* The read beyond the buffer is undefined: it meets no byte pat[0] or one
\* beyond `end` (slow_memmem returns 0 either way), or the process is
\* stopped by a memory fault (eng.overreadFaults).

\* The transaction public key of a coinbase, as bytes.
TxPubKey == <<1, 2>>

\* Fault variant of reserved_region: the region is not compared with the
\* size of the blob.
reserved_region_unchecked(reserve_size, block_blob, tx_pub_key) ==
  IF 0 < reserve_size
    THEN IF slow_memmem(block_blob, tx_pub_key) = 0
           THEN [ok |-> FALSE, reserved_offset |-> 0]
           ELSE [ok |-> TRUE,
                 reserved_offset |-> slow_memmem(block_blob, tx_pub_key)
                                       + Len(tx_pub_key) + 3]
    ELSE [ok |-> TRUE, reserved_offset |-> 0]

\* Lines 1019-1034: res.reserved_offset, and whether the handler goes on.
\* The offset is the place of the key in the blob, plus the size of the key,
\* plus 3 (the tag of the key, the tag of the nonce and its counter).
reserved_region(reserve_size, block_blob, tx_pub_key) ==
  IF 0 < reserve_size
    THEN IF slow_memmem(block_blob, tx_pub_key) = 0
           THEN [ok |-> FALSE, reserved_offset |-> 0]
         ELSE IF slow_memmem(block_blob, tx_pub_key) + Len(tx_pub_key) + 3 + reserve_size
                   > Len(block_blob)
           THEN [ok |-> FALSE,
                 reserved_offset |-> slow_memmem(block_blob, tx_pub_key)
                                       + Len(tx_pub_key) + 3]
         ELSE [ok |-> TRUE,
               reserved_offset |-> slow_memmem(block_blob, tx_pub_key)
                                     + Len(tx_pub_key) + 3]
    ELSE [ok |-> TRUE, reserved_offset |-> 0]

\* Lines 1019-1044, on the region computed: the hashing blob and the response.
template_finish(eng, written, region, cs) ==
  IF ~region.ok
    THEN Raised(JsonRpcError(CORE_RPC_ERROR_CODE_INTERNAL_ERROR,
                             "Internal error: failed to create block template"),
                [written EXCEPT !.reserved_offset = region.reserved_offset], cs)
  ELSE IF ~eng.hashingBlob
    THEN Raised(JsonRpcError(CORE_RPC_ERROR_CODE_INTERNAL_ERROR,
                             "Internal error: failed to get blockhashing_blob"),
                [written EXCEPT !.reserved_offset = region.reserved_offset], cs)
  ELSE Returned(TRUE,
                [written EXCEPT !.status = CORE_RPC_STATUS_OK,
                                !.reserved_offset = region.reserved_offset,
                                !.blocktemplate_blob = toHex(eng.block_blob)],
                cs)

\* Lines 1004-1044: the handler once the request's size and address passed.
\* The engine writes res.difficulty and res.height before the later checks
\* can fail; eng.block_blob is toBinaryArray(b), eng.keyInExtra whether the
\* coinbase extra holds a transaction public key.
template_build(req, eng, cs) ==
  IF ~eng.templateCreated
    THEN Raised(JsonRpcError(CORE_RPC_ERROR_CODE_INTERNAL_ERROR,
                             "Internal error: failed to create block template"),
                [status |-> ""], cs)
  ELSE IF ~eng.keyInExtra
    THEN Raised(JsonRpcError(CORE_RPC_ERROR_CODE_INTERNAL_ERROR,
                             "Internal error: failed to find tx pub key in coinbase extra"),
                [status |-> "", difficulty |-> eng.difficulty, height |-> height,
                 reserved_offset |-> 0, blocktemplate_blob |-> <<>>], cs)
  ELSE IF /\ 0 < req.reserve_size
          /\ eng.overreadFaults
          /\ slow_memmem_overreads(eng.block_blob, TxPubKey)
    THEN Raised(MemoryFault,
                [status |-> "", difficulty |-> eng.difficulty, height |-> height,
                 reserved_offset |-> 0, blocktemplate_blob |-> <<>>], cs)
  ELSE template_finish(eng,
                       [status |-> "", difficulty |-> eng.difficulty, height |-> height,
                        reserved_offset |-> 0, blocktemplate_blob |-> <<>>],
                       reserved_region(req.reserve_size, eng.block_blob, TxPubKey),
                       cs)

\* Fault variant of on_getblocktemplate: the address is parsed before the
\* reserve size is looked at.
on_getblocktemplate_addressFirst(req, eng) ==
  IF req.wallet_address = ""
    THEN Raised(JsonRpcError(CORE_RPC_ERROR_CODE_WRONG_WALLET_ADDRESS,
                             "Failed to parse wallet address"), [status |-> ""], <<>>)
  ELSE IF ~eng.addressParses
    THEN Raised(JsonRpcError(CORE_RPC_ERROR_CODE_WRONG_WALLET_ADDRESS,
                             "Failed to parse wallet address"), [status |-> ""],
                <<"currency.parseAccountAddressString">>)
  ELSE IF req.reserve_size > TX_EXTRA_NONCE_MAX_COUNT
    THEN Raised(JsonRpcError(CORE_RPC_ERROR_CODE_TOO_BIG_RESERVE_SIZE,
                             "To big reserved size, maximum 255"),
                [status |-> ""], <<"currency.parseAccountAddressString">>)
  ELSE template_build(req, eng,
                      <<"currency.parseAccountAddressString", "core.get_block_template">>)

\* req.reserve_size is a number of bytes; req.wallet_address is "" or an
\* address string.
on_getblocktemplate(req, eng) ==
  IF req.reserve_size > TX_EXTRA_NONCE_MAX_COUNT
    THEN Raised(JsonRpcError(CORE_RPC_ERROR_CODE_TOO_BIG_RESERVE_SIZE,
                             "To big reserved size, maximum 255"),
                [status |-> ""], <<>>)
  ELSE IF req.wallet_address = ""
    THEN Raised(JsonRpcError(CORE_RPC_ERROR_CODE_WRONG_WALLET_ADDRESS,
                             "Failed to parse wallet address"), [status |-> ""], <<>>)
  ELSE IF ~eng.addressParses
    THEN Raised(JsonRpcError(CORE_RPC_ERROR_CODE_WRONG_WALLET_ADDRESS,
                             "Failed to parse wallet address"), [status |-> ""],
                <<"currency.parseAccountAddressString">>)
  ELSE template_build(req, eng,
                      <<"currency.parseAccountAddressString", "core.get_block_template">>)

\* The status is left as value-initialized.
on_get_currency_id(req, eng) ==
  Returned(TRUE, [status |-> "", currency_id_blob |-> getBlockIdByHeight(0)],
           <<"currency.genesisBlockHash">>)

\* bvc.m_added_to_main_chain after handle_incoming_block_blob.
m_added_to_main_chain(bvc) == bvc = "main"

\* Fault variant of on_submitblock: a block is refused only when its
\* verification failed.
on_submitblock_unlessRejected(req, eng) ==
  IF Len(req.blobs) # 1
    THEN Raised(JsonRpcError(CORE_RPC_ERROR_CODE_WRONG_PARAM, "Wrong param"),
                [status |-> ""], <<>>)
  ELSE IF req.blobs[1] = "nothex"
    THEN Raised(JsonRpcError(CORE_RPC_ERROR_CODE_WRONG_BLOCKBLOB, "Wrong block blob"),
                [status |-> ""], <<>>)
  ELSE IF eng.bvc = "rejected"
    THEN Raised(JsonRpcError(CORE_RPC_ERROR_CODE_BLOCK_NOT_ACCEPTED, "Block not accepted"),
                [status |-> ""], <<"core.handle_incoming_block_blob">>)
  ELSE Returned(TRUE, [status |-> CORE_RPC_STATUS_OK],
                <<"core.handle_incoming_block_blob">>)

\* req.blobs: the positional parameters, each "hex" or "nothex".
on_submitblock(req, eng) ==
  IF Len(req.blobs) # 1
    THEN Raised(JsonRpcError(CORE_RPC_ERROR_CODE_WRONG_PARAM, "Wrong param"),
                [status |-> ""], <<>>)
  ELSE IF req.blobs[1] = "nothex"
    THEN Raised(JsonRpcError(CORE_RPC_ERROR_CODE_WRONG_BLOCKBLOB, "Wrong block blob"),
                [status |-> ""], <<>>)
  ELSE IF ~m_added_to_main_chain(eng.bvc)
    THEN Raised(JsonRpcError(CORE_RPC_ERROR_CODE_BLOCK_NOT_ACCEPTED, "Block not accepted"),
                [status |-> ""], <<"core.handle_incoming_block_blob">>)
  ELSE Returned(TRUE, [status |-> CORE_RPC_STATUS_OK],
                <<"core.handle_incoming_block_blob">>)

fill_block_header_response(orphan_status, h, hash) ==
  [orphan_status |-> orphan_status,
   height |-> h,
   depth |-> (height - h - 1) % UintModulus,
   hash |-> hash]

fill_block_header_calls ==
  get_current_blockchain_height \o <<"core.getBlockDifficulty">>

NoHeader == [status |-> ""]

on_get_last_block_header(req, eng) ==
  IF ~eng.blockFound
    THEN Raised(JsonRpcError(CORE_RPC_ERROR_CODE_INTERNAL_ERROR,
                             "Internal error: can't get last block hash."),
                NoHeader, <<"core.get_blockchain_top", "core.getBlockByHash">>)
    ELSE Returned(TRUE,
                  [status |-> CORE_RPC_STATUS_OK,
                   block_header |->
                     fill_block_header_response(
                       getBlockIdByHeight(height - 1) # getBlockIdByHeight(height - 1),
                       height - 1, getBlockIdByHeight(height - 1))],
                  <<"core.get_blockchain_top", "core.getBlockByHash",
                    "core.getBlockIdByHeight">> \o fill_block_header_calls)

\* req.hash is not hex, or the hex of a block id; eng.blockIndex is the height recorded
\* in the found block's coinbase input.
on_get_block_header_by_hash(req, eng) ==
  IF ~req.hash.hex
    THEN Raised(JsonRpcError(CORE_RPC_ERROR_CODE_WRONG_PARAM,
                             "Failed to parse hex representation of block hash."),
                NoHeader, <<>>)
  ELSE IF ~eng.blockFound
    THEN Raised(JsonRpcError(CORE_RPC_ERROR_CODE_INTERNAL_ERROR,
                             "Internal error: can't get block by hash."),
                NoHeader, <<"core.getBlockByHash">>)
  ELSE IF ~eng.coinbaseIsBaseInput
    THEN Raised(JsonRpcError(CORE_RPC_ERROR_CODE_INTERNAL_ERROR,
                             "Internal error: coinbase transaction in the block has the wrong type"),
                NoHeader, <<"core.getBlockByHash">>)
  ELSE Returned(TRUE,
                [status |-> CORE_RPC_STATUS_OK,
                 block_header |->
                   fill_block_header_response(
                     req.hash.id # getBlockIdByHeight(eng.blockIndex),
                     eng.blockIndex, req.hash.id)],
                <<"core.getBlockByHash", "core.getBlockIdByHeight">>
                  \o fill_block_header_calls)

on_get_block_header_by_height(req, eng) ==
  IF height <= req.height
    THEN Raised(JsonRpcError(CORE_RPC_ERROR_CODE_TOO_BIG_HEIGHT, "To big height"),
                NoHeader, get_current_blockchain_height \o get_current_blockchain_height)
  ELSE IF ~eng.blockFound
    THEN Raised(JsonRpcError(CORE_RPC_ERROR_CODE_INTERNAL_ERROR,
                             "Internal error: can't get block by height."),
                NoHeader,
                get_current_blockchain_height
                  \o <<"core.getBlockIdByHeight", "core.getBlockByHash">>)
  ELSE Returned(TRUE,
                [status |-> CORE_RPC_STATUS_OK,
                 block_header |->
                   fill_block_header_response(
                     getBlockIdByHeight(req.height) # getBlockIdByHeight(req.height),
                     req.height, getBlockIdByHeight(req.height))],
                get_current_blockchain_height
                  \o <<"core.getBlockIdByHeight", "core.getBlockByHash",
                       "core.getBlockIdByHeight">> \o fill_block_header_calls)

print_blocks_count == 30

\* Fault variant of blocks_list_loop: the loop goes on while i > last_height.
RECURSIVE blocks_list_loop_exclusive(_, _)
blocks_list_loop_exclusive(i, last_height) ==
  IF i <= last_height THEN <<>>
  ELSE IF i = 0 THEN <<0>>
  ELSE <<i>> \o blocks_list_loop_exclusive(i - 1, last_height)

\* The heights the loop of f_on_blocks_list_json visits, from i down to
\* last_height, stopping after height 0.
RECURSIVE blocks_list_loop(_, _)
blocks_list_loop(i, last_height) ==
  IF i < last_height THEN <<>>
  ELSE IF i = 0 THEN <<0>>
  ELSE <<i>> \o blocks_list_loop(i - 1, last_height)

f_on_blocks_list_json(req, eng) ==
  LET last_height == IF req.height <= print_blocks_count
                       THEN 0 ELSE req.height - print_blocks_count
      visited == blocks_list_loop(req.height, last_height)
  IN
  IF height <= req.height
    THEN Raised(JsonRpcError(CORE_RPC_ERROR_CODE_TOO_BIG_HEIGHT, "To big height"),
                [status |-> "", blocks |-> <<>>],
                get_current_blockchain_height \o get_current_blockchain_height)
  ELSE IF ~eng.blockFound
    THEN Raised(JsonRpcError(CORE_RPC_ERROR_CODE_INTERNAL_ERROR,
                             "Internal error: can't get block by height."),
                [status |-> "", blocks |-> <<>>],
                get_current_blockchain_height
                  \o <<"core.getBlockIdByHeight", "core.getBlockByHash">>)
  ELSE Returned(TRUE, [status |-> CORE_RPC_STATUS_OK, blocks |-> visited],
                get_current_blockchain_height
                  \o [k \in 1 .. 5 * Len(visited) |->
                        CASE k % 5 = 1 -> "core.getBlockIdByHeight"
                          [] k % 5 = 2 -> "core.getBlockByHash"
                          [] k % 5 = 3 -> "core.getBlockSize"
                          [] k % 5 = 4 -> "core.getBlockDifficulty"
                          [] OTHER -> "core.getMinimalFeeForHeight"])

\* The engine lookups of f_on_block_json after the header of the block at
\* height h is filled, in order; each ends the handler with `return false`
\* when it fails. The generated coins of the previous block are asked for
\* above height 0 only.
BlockJsonLookups(h) ==
  <<"core.getBackwardBlocksSizes", "core.getBlockSize", "core.getAlreadyGeneratedCoins",
    "core.getGeneratedTransactionsNumber">>
    \o (IF h > 0 THEN <<"core.getAlreadyGeneratedCoins">> ELSE <<>>)
    \o <<"core.getBlockReward", "core.getBlockReward">>

\* The most lookups a block needs.
MaxBlockJsonLookups == Len(BlockJsonLookups(1))

\* req.hash is a decimal height, the hex of a block id, or neither.
\* eng.failAt: 0, or the place in BlockJsonLookups of the lookup that fails
\* (none fails when the block needs fewer lookups);
\* eng.rewardInversion: the maximal reward is below the current one.
f_on_block_json(req, eng) ==
  LET lookup == IF req.hash.decimal THEN <<"core.getBlockIdByHeight">> ELSE <<>>
      found == lookup \o <<"core.getBlockByHash">>
      header == found \o <<"core.getBlockIdByHeight">> \o fill_block_header_calls
                  \o <<"core.getBlockDifficulty">>
      hash == IF req.hash.decimal THEN getBlockIdByHeight(req.hash.id) ELSE req.hash.id
      block == fill_block_header_response(
                 hash # getBlockIdByHeight(eng.blockIndex), eng.blockIndex, hash)
      lookups == BlockJsonLookups(eng.blockIndex)
  IN
  IF ~req.hash.decimal /\ ~req.hash.hex
    THEN Raised(JsonRpcError(CORE_RPC_ERROR_CODE_WRONG_PARAM,
                             "Failed to parse hex representation of block hash."),
                [status |-> ""], <<>>)
  ELSE IF ~eng.blockFound
    THEN Raised(JsonRpcError(CORE_RPC_ERROR_CODE_INTERNAL_ERROR,
                             "Internal error: can't get block by hash."),
                [status |-> ""], found)
  ELSE IF ~eng.coinbaseIsBaseInput
    THEN Raised(JsonRpcError(CORE_RPC_ERROR_CODE_INTERNAL_ERROR,
                             "Internal error: coinbase transaction in the block has the wrong type"),
                [status |-> ""], found)
  ELSE IF eng.failAt # 0 /\ eng.failAt <= Len(lookups)
    THEN Returned(FALSE, [status |-> "", block |-> block],
                  header \o SubSeq(lookups, 1, eng.failAt))
  ELSE IF eng.rewardInversion
    THEN Returned(FALSE, [status |-> "", block |-> block], header \o lookups)
  ELSE Returned(TRUE, [status |-> CORE_RPC_STATUS_OK, block |-> block],
                header \o lookups \o <<"core.getTransactions">>)

f_on_transaction_json(req, eng) ==
  IF ~req.hash.hex
    THEN Raised(JsonRpcError(CORE_RPC_ERROR_CODE_WRONG_PARAM,
                             "Failed to parse hex representation of transaction hash."),
                [status |-> ""], <<>>)
  ELSE IF ~eng.txFound
    THEN Raised(JsonRpcError(CORE_RPC_ERROR_CODE_WRONG_PARAM, "transaction wasn't found."),
                [status |-> ""], <<"core.getTransactions">>)
  ELSE Returned(TRUE, [status |-> CORE_RPC_STATUS_OK, inBlock |-> eng.inBlock],
                <<"core.getTransactions", "core.getBlockContainingTx">>
                  \o (IF eng.inBlock
                        THEN <<"core.getBlockByHash", "core.getBlockSize",
                               "protocol.getObservedHeight">>
                        ELSE <<>>))

f_on_pool_json(req, eng) ==
  Returned(TRUE, [status |-> CORE_RPC_STATUS_OK, transactions |-> eng.pool],
           <<"core.getPoolTransactions">>)

f_on_mempool_json(req, eng) ==
  Returned(TRUE, [status |-> CORE_RPC_STATUS_OK, mempool |-> eng.pool],
           <<"core.getMemoryPool">>)

\* req.payment_id is "", "nothex" or "hash".
k_on_transactions_by_payment_id(req, eng) ==
  IF req.payment_id = ""
    THEN Raised(JsonRpcError(CORE_RPC_ERROR_CODE_WRONG_PARAM,
                             "Wrong parameters, expected payment_id"), [status |-> ""], <<>>)
  ELSE IF req.payment_id = "nothex"
    THEN Raised(JsonRpcError(CORE_RPC_ERROR_CODE_WRONG_PARAM, "Failed to parse Payment ID"),
                [status |-> ""], <<>>)
  ELSE IF ~eng.ok
    THEN Raised(JsonRpcError(CORE_RPC_ERROR_CODE_INTERNAL_ERROR,
                             "Internal error: can't get transactions by Payment ID"),
                [status |-> ""], <<"core.getTransactionsByPaymentId">>)
  ELSE Returned(TRUE, [status |-> CORE_RPC_STATUS_OK, transactions |-> eng.pool],
                <<"core.getTransactionsByPaymentId">>)

\* Registered in jsonRpcHandlers; its body is not in RpcServer.cpp.
onGetTransactionHashesByPaymentId(req, eng) ==
  IF req.payment_id # "hash"
    THEN Raised(JsonRpcError(CORE_RPC_ERROR_CODE_WRONG_PARAM, "Failed to parse Payment ID"),
                [status |-> ""], <<>>)
    ELSE Returned(TRUE, [status |-> CORE_RPC_STATUS_OK, transactionHashes |-> eng.pool],
                  <<"core.getTransactionHashesByPaymentId">>)

\* A transaction output is [amount, isKey, derivedFor, index]: a key output
\* holds the one-time key made from the derivation derivedFor for the output
\* index `index`, so derive_public_key(derivation, keyIndex, spendPublicKey)
\* equals its key exactly when both agree.
\* The loop over transaction.outputs of k_on_check_tx_key (lines 1216-1227)
\* and of k_on_check_tx_with_view_key (lines 1291-1302), from keyIndex on:
\* the outputs pushed to `outputs`.
RECURSIVE matching_outputs(_, _, _)
matching_outputs(outputs, derivation, keyIndex) ==
  IF outputs = <<>> THEN <<>>
  ELSE (IF /\ Head(outputs).isKey
           /\ Head(outputs).derivedFor = derivation
           /\ Head(outputs).index = keyIndex
          THEN <<Head(outputs)>> ELSE <<>>)
         \o matching_outputs(Tail(outputs), derivation, keyIndex + 1)

\* received: the sum of the amounts of the outputs pushed.
RECURSIVE received_amount(_)
received_amount(matched) ==
  IF matched = <<>> THEN 0
  ELSE Head(matched).amount + received_amount(Tail(matched))

\* req.txid, req.txkey: "hash" or "nothex". eng.derivation: the key derivation
\* of (address view public key, transaction secret key), "" when it fails.
k_on_check_tx_key(req, eng) ==
  LET parse == <<"currency.parseAccountAddressString">>
      wrong(m) == JsonRpcError(CORE_RPC_ERROR_CODE_WRONG_PARAM, m)
  IN
  IF req.txid = "nothex"
    THEN Raised(wrong("Failed to parse txid"), [status |-> ""], <<>>)
  ELSE IF ~eng.addressParses
    THEN Raised(wrong("Failed to parse address"), [status |-> ""], parse)
  ELSE IF req.txkey = "nothex"
    THEN Raised(wrong("Failed to parse txkey"), [status |-> ""], parse)
  ELSE IF ~eng.txFound
    THEN Raised(wrong("Couldn't find transaction with hash"), [status |-> ""],
                parse \o <<"core.getTransactions">>)
  ELSE IF eng.derivation = ""
    THEN Raised(wrong("Failed to generate key derivation from supplied parameters"),
                [status |-> ""], parse \o <<"core.getTransactions">>)
  ELSE IF eng.scanThrows
    THEN Raised(JsonRpcError(CORE_RPC_ERROR_CODE_INTERNAL_ERROR, "Unknown error"),
                [status |-> ""], parse \o <<"core.getTransactions">>)
  ELSE Returned(TRUE,
                [status |-> CORE_RPC_STATUS_OK,
                 amount |-> received_amount(matching_outputs(eng.outputs, eng.derivation, 0)),
                 outputs |-> matching_outputs(eng.outputs, eng.derivation, 0)],
                parse \o <<"core.getTransactions">>)

\* Fault variant of k_on_check_tx_with_view_key: the output index of the scan
\* starts at 1.
k_on_check_tx_with_view_key_fromOne(req, eng) ==
  LET parse == <<"currency.parseAccountAddressString">>
      wrong(m) == JsonRpcError(CORE_RPC_ERROR_CODE_WRONG_PARAM, m)
  IN
  IF req.txid = "nothex"
    THEN Raised(wrong("Failed to parse txid"), [status |-> ""], <<>>)
  ELSE IF ~eng.addressParses
    THEN Raised(wrong("Failed to parse address"), [status |-> ""], parse)
  ELSE IF req.view_key = "nothex"
    THEN Raised(wrong("Failed to parse private view key"), [status |-> ""], parse)
  ELSE IF ~eng.txFound
    THEN Raised(wrong("Couldn't find transaction with hash"), [status |-> ""],
                parse \o <<"core.getTransactions">>)
  ELSE IF eng.derivation = ""
    THEN Raised(wrong("Failed to generate key derivation from supplied parameters"),
                [status |-> ""], parse \o <<"core.getTransactions">>)
  ELSE IF eng.scanThrows
    THEN Raised(JsonRpcError(CORE_RPC_ERROR_CODE_INTERNAL_ERROR, "Unknown error"),
                [status |-> ""], parse \o <<"core.getTransactions">>)
  ELSE Returned(TRUE,
                [status |-> CORE_RPC_STATUS_OK,
                 amount |-> received_amount(matching_outputs(eng.outputs, eng.derivation, 1)),
                 outputs |-> matching_outputs(eng.outputs, eng.derivation, 1)],
                parse \o <<"core.getTransactions", "core.getBlockContainingTx">>
                  \o (IF eng.inBlock THEN <<"protocol.getObservedHeight">> ELSE <<>>))

\* eng.derivation: the key derivation of (transaction public key, view secret key).
k_on_check_tx_with_view_key(req, eng) ==
  LET parse == <<"currency.parseAccountAddressString">>
      wrong(m) == JsonRpcError(CORE_RPC_ERROR_CODE_WRONG_PARAM, m)
  IN
  IF req.txid = "nothex"
    THEN Raised(wrong("Failed to parse txid"), [status |-> ""], <<>>)
  ELSE IF ~eng.addressParses
    THEN Raised(wrong("Failed to parse address"), [status |-> ""], parse)
  ELSE IF req.view_key = "nothex"
    THEN Raised(wrong("Failed to parse private view key"), [status |-> ""], parse)
  ELSE IF ~eng.txFound
    THEN Raised(wrong("Couldn't find transaction with hash"), [status |-> ""],
                parse \o <<"core.getTransactions">>)
  ELSE IF eng.derivation = ""
    THEN Raised(wrong("Failed to generate key derivation from supplied parameters"),
                [status |-> ""], parse \o <<"core.getTransactions">>)
  ELSE IF eng.scanThrows
    THEN Raised(JsonRpcError(CORE_RPC_ERROR_CODE_INTERNAL_ERROR, "Unknown error"),
                [status |-> ""], parse \o <<"core.getTransactions">>)
  ELSE Returned(TRUE,
                [status |-> CORE_RPC_STATUS_OK,
                 amount |-> received_amount(matching_outputs(eng.outputs, eng.derivation, 0)),
                 outputs |-> matching_outputs(eng.outputs, eng.derivation, 0)],
                parse \o <<"core.getTransactions", "core.getBlockContainingTx">>
                  \o (IF eng.inBlock THEN <<"protocol.getObservedHeight">> ELSE <<>>))

on_validate_address(req, eng) ==
  Returned(TRUE, [status |-> CORE_RPC_STATUS_OK, isvalid |-> eng.addressParses],
           <<"currency.parseAccountAddressString">>
             \o (IF eng.addressParses THEN <<"currency.accountAddressAsString">> ELSE <<>>))

\* req.signature is "noheader", "undecodable" or "SigV1".
on_verify_message(req, eng) ==
  LET parse == <<"currency.parseAccountAddressString">>
      wrong(m) == JsonRpcError(CORE_RPC_ERROR_CODE_WRONG_PARAM, m)
  IN
  IF ~eng.addressParses
    THEN Raised(wrong("Failed to parse address"), [status |-> ""], parse)
  ELSE IF req.signature = "noheader"
    THEN Raised(wrong("Signature header check error"), [status |-> ""], parse)
  ELSE IF req.signature = "undecodable"
    THEN Raised(wrong("Signature decoding error"), [status |-> ""], parse)
  ELSE Returned(TRUE, [status |-> CORE_RPC_STATUS_OK, sig_valid |-> eng.signatureValid],
                parse)

\* ---------------------------------------------------------- method tables

Entry(codec, handler, allowBusyCore) ==
  [codec |-> codec, handler |-> handler, allowBusyCore |-> allowBusyCore]

\* A URL is the sequence of its path segments: "/getinfo" is <<"getinfo">>.
s_handlers ==
  (<<"getblocks.bin">> :> Entry("bin", "on_get_blocks", FALSE)) @@
  (<<"queryblocks.bin">> :> Entry("bin", "on_query_blocks", FALSE)) @@
  (<<"queryblockslite.bin">> :> Entry("bin", "on_query_blocks_lite", FALSE)) @@
  (<<"get_o_indexes.bin">> :> Entry("bin", "on_get_indexes", FALSE)) @@
  (<<"getrandom_outs.bin">> :> Entry("bin", "on_get_random_outs", FALSE)) @@
  (<<"get_pool_changes.bin">> :> Entry("bin", "onGetPoolChanges", FALSE)) @@
  (<<"get_pool_changes_lite.bin">> :> Entry("bin", "onGetPoolChangesLite", FALSE)) @@
  (<<"getinfo">> :> Entry("json", "on_get_info", TRUE)) @@
  (<<"getheight">> :> Entry("json", "on_get_height", TRUE)) @@
  (<<"gettransactions">> :> Entry("json", "on_get_transactions", FALSE)) @@
  (<<"sendrawtransaction">> :> Entry("json", "on_send_raw_tx", FALSE)) @@
  (<<"feeaddress">> :> Entry("json", "on_get_fee_address", TRUE)) @@
  (<<"peers">> :> Entry("json", "on_get_peer_list", TRUE)) @@
  (<<"paymentid">> :> Entry("json", "on_get_payment_id", TRUE)) @@
  (<<"start_mining">> :> Entry("json", "on_start_mining", FALSE)) @@
  (<<"stop_mining">> :> Entry("json", "on_stop_mining", FALSE)) @@
  (<<"stop_daemon">> :> Entry("json", "on_stop_daemon", TRUE)) @@
  (<<"json_rpc">> :> Entry("jsonrpc", "processJsonRpcRequest", TRUE))

jsonRpcHandlers ==
  ("getblockcount" :> Entry("member", "on_getblockcount", TRUE)) @@
  ("on_getblockhash" :> Entry("member", "on_getblockhash", FALSE)) @@
  ("getblocktemplate" :> Entry("member", "on_getblocktemplate", FALSE)) @@
  ("getcurrencyid" :> Entry("member", "on_get_currency_id", TRUE)) @@
  ("submitblock" :> Entry("member", "on_submitblock", FALSE)) @@
  ("getlastblockheader" :> Entry("member", "on_get_last_block_header", FALSE)) @@
  ("getblockheaderbyhash" :> Entry("member", "on_get_block_header_by_hash", FALSE)) @@
  ("getblockheaderbyheight" :> Entry("member", "on_get_block_header_by_height", FALSE)) @@
  ("f_blocks_list_json" :> Entry("member", "f_on_blocks_list_json", FALSE)) @@
  ("f_block_json" :> Entry("member", "f_on_block_json", FALSE)) @@
  ("f_transaction_json" :> Entry("member", "f_on_transaction_json", FALSE)) @@
  ("f_pool_json" :> Entry("member", "f_on_pool_json", FALSE)) @@
  ("f_mempool_json" :> Entry("member", "f_on_mempool_json", FALSE)) @@
  ("k_transactions_by_payment_id" :>
     Entry("member", "k_on_transactions_by_payment_id", FALSE)) @@
  ("get_transaction_hashes_by_payment_id" :>
     Entry("member", "onGetTransactionHashesByPaymentId", FALSE)) @@
  ("check_tx_key" :> Entry("member", "k_on_check_tx_key", FALSE)) @@
  ("check_tx_with_view_key" :> Entry("member", "k_on_check_tx_with_view_key", FALSE)) @@
  ("validateaddress" :> Entry("member", "on_validate_address", FALSE)) @@
  ("verifymessage" :> Entry("member", "on_verify_message", FALSE))

\* (obj->*handler)(req, res): the member function a table entry is bound to.
CallHandler(handler, req, eng) ==
  CASE handler = "on_get_blocks" -> on_get_blocks(req, eng)
    [] handler = "on_query_blocks" -> on_query_blocks(req, eng)
    [] handler = "on_query_blocks_lite" -> on_query_blocks_lite(req, eng)
    [] handler = "on_get_indexes" -> on_get_indexes(req, eng)
    [] handler = "on_get_random_outs" -> on_get_random_outs(req, eng)
    [] handler = "onGetPoolChanges" -> onGetPoolChanges(req, eng)
    [] handler = "onGetPoolChangesLite" -> onGetPoolChangesLite(req, eng)
    [] handler = "on_get_info" -> on_get_info(req, eng)
    [] handler = "on_get_height" -> on_get_height(req, eng)
    [] handler = "on_get_transactions" -> on_get_transactions(req, eng)
    [] handler = "on_send_raw_tx" -> on_send_raw_tx(req, eng)
    [] handler = "on_get_fee_address" -> on_get_fee_address(req, eng)
    [] handler = "on_get_peer_list" -> on_get_peer_list(req, eng)
    [] handler = "on_get_payment_id" -> on_get_payment_id(req, eng)
    [] handler = "on_start_mining" -> on_start_mining(req, eng)
    [] handler = "on_stop_mining" -> on_stop_mining(req, eng)
    [] handler = "on_stop_daemon" -> on_stop_daemon(req, eng)
    [] handler = "on_getblockcount" -> on_getblockcount(req, eng)
    [] handler = "on_getblockhash" -> on_getblockhash(req, eng)
    [] handler = "on_getblocktemplate" -> on_getblocktemplate(req, eng)
    [] handler = "on_get_currency_id" -> on_get_currency_id(req, eng)
    [] handler = "on_submitblock" -> on_submitblock(req, eng)
    [] handler = "on_get_last_block_header" -> on_get_last_block_header(req, eng)
    [] handler = "on_get_block_header_by_hash" -> on_get_block_header_by_hash(req, eng)
    [] handler = "on_get_block_header_by_height" -> on_get_block_header_by_height(req, eng)
    [] handler = "f_on_blocks_list_json" -> f_on_blocks_list_json(req, eng)
    [] handler = "f_on_block_json" -> f_on_block_json(req, eng)
    [] handler = "f_on_transaction_json" -> f_on_transaction_json(req, eng)
    [] handler = "f_on_pool_json" -> f_on_pool_json(req, eng)
    [] handler = "f_on_mempool_json" -> f_on_mempool_json(req, eng)
    [] handler = "k_on_transactions_by_payment_id" ->
         k_on_transactions_by_payment_id(req, eng)
    [] handler = "onGetTransactionHashesByPaymentId" ->
         onGetTransactionHashesByPaymentId(req, eng)
    [] handler = "k_on_check_tx_key" -> k_on_check_tx_key(req, eng)
    [] handler = "k_on_check_tx_with_view_key" -> k_on_check_tx_with_view_key(req, eng)
    [] handler = "on_validate_address" -> on_validate_address(req, eng)
    [] handler = "on_verify_message" -> on_verify_message(req, eng)

\* A collaborator may fail with an exception of its own: with eng.throws the
\* first collaborator call of the handler raises it.
FirstCallThrows(eng, h) ==
  IF eng.throws /\ h.calls # <<>>
    THEN Raised(StdException("collaborator failure"), [status |-> ""], <<h.calls[1]>>)
    ELSE h

RunHandler(handler, req, eng) == FirstCallThrows(eng, CallHandler(handler, req, eng))

\* ------------------------------------------------- requests and engine data

Heights == 0 .. MaxHeight
HashParams ==
  {[decimal |-> FALSE, hex |-> FALSE, id |-> NULL_HASH]}
    \cup [decimal : {FALSE}, hex : {TRUE}, id : 1 .. MaxHeight + 1]
DecimalParams == [decimal : {TRUE}, hex : {FALSE}, id : Heights]
KeyOutput(amount, derivedFor, index) ==
  [amount |-> amount, isKey |-> TRUE, derivedFor |-> derivedFor, index |-> index]
OtherOutput(amount) ==
  [amount |-> amount, isKey |-> FALSE, derivedFor |-> "", index |-> 0]

\* The outputs of the transactions the engine holds: none, one for d1 beside
\* an output that is no key output, one for each of two recipients, two for
\* d1, and one for d1 behind an output made for another place.
TxOutputs ==
  {<<>>,
   <<KeyOutput(1, "d1", 0), OtherOutput(2)>>,
   <<KeyOutput(1, "d1", 0), KeyOutput(2, "d2", 1)>>,
   <<KeyOutput(1, "d1", 0), KeyOutput(2, "d1", 1)>>,
   <<KeyOutput(1, "d1", 1), KeyOutput(2, "d1", 1)>>}

\* The decoded request structures a client can send to a handler.
Requests(handler) ==
  CASE handler = "on_get_blocks" -> [block_ids : {<<>>, <<1>>, <<2>>, <<2, 1>>}]
    [] handler = "on_get_transactions" ->
         [txs_hashes : {<<>>, <<"hash">>, <<"short">>, <<"nothex">>, <<"hash", "nothex">>,
                        <<"short", "nothex">>}]
    [] handler = "on_send_raw_tx" -> [tx_as_hex : {"hex", "nothex"}]
    [] handler = "on_start_mining" -> [miner_address : {"addr"}, threads_count : {1}]
    [] handler = "on_getblockhash" ->
         [params : {<<>>, <<UInt64(0, 0), UInt64(0, 1)>>}
                     \cup {<<UInt64(hi, lo)>> : hi \in {0, 1}, lo \in Heights}]
    [] handler = "on_getblocktemplate" ->
         [reserve_size : 0 .. MaxReserve + 1, wallet_address : {"", "addr"}]
    [] handler = "on_submitblock" ->
         [blobs : {<<>>, <<"hex">>, <<"nothex">>, <<"hex", "hex">>}]
    [] handler = "on_get_block_header_by_hash" -> [hash : HashParams]
    [] handler = "on_get_block_header_by_height" -> [height : Heights]
    [] handler = "f_on_blocks_list_json" -> [height : Heights]
    [] handler = "f_on_block_json" -> [hash : HashParams \cup DecimalParams]
    [] handler = "f_on_transaction_json" -> [hash : HashParams]
    [] handler \in {"k_on_transactions_by_payment_id",
                    "onGetTransactionHashesByPaymentId"} ->
         [payment_id : {"", "nothex", "hash"}]
    [] handler = "k_on_check_tx_key" ->
         [txid : {"hash", "nothex"}, txkey : {"hash", "nothex"}]
    [] handler = "k_on_check_tx_with_view_key" ->
         [txid : {"hash", "nothex"}, view_key : {"hash", "nothex"}]
    [] handler = "on_verify_message" -> [signature : {"noheader", "undecodable", "SigV1"}]
    [] OTHER -> {[empty |-> TRUE]}

\* Serialized block templates: the key (TxPubKey) once with room behind it,
\* behind a false start, twice, at the very end, at offset 0, and absent.
BlockBlobs ==
  {<<0, 1, 2, 0, 0, 0, 0>>,
   <<0, 1, 0, 1, 2, 0, 0, 0, 0, 0>>,
   <<0, 1, 2, 1, 2, 0, 0, 0, 0>>,
   <<0, 0, 0, 0, 1, 2>>,
   <<1, 2, 0, 0, 0, 0, 0>>,
   <<0, 3, 1, 0>>}

\* What handle_incoming_block_blob can do with a block: add it to the main
\* chain, attach it to another branch, or reject it.
BlockVerdicts == {"main", "alternative", "rejected"}

\* What the collaborators can answer to the calls of a handler.
EngineAnswers(handler) ==
  CASE handler = "on_get_blocks" ->
         [throws : BOOLEAN, startBlockIndex : 0 .. height - 1, ndebug : BOOLEAN]
    [] handler \in {"on_query_blocks", "on_query_blocks_lite"} ->
         [throws : BOOLEAN, ok : BOOLEAN, startHeight : 0 .. height - 1]
    [] handler = "on_get_indexes" ->
         [throws : BOOLEAN, ok : BOOLEAN, outputIndexes : {<<>>, <<0>>}]
    [] handler = "on_get_random_outs" ->
         [throws : BOOLEAN, ok : BOOLEAN, outs : {<<>>, <<1>>}]
    [] handler = "onGetPoolChanges" ->
         [throws : BOOLEAN, tailActual : BOOLEAN,
          added : {<<>>, <<TRUE>>, <<FALSE>>, <<TRUE, FALSE>>}]
    [] handler = "onGetPoolChangesLite" -> [throws : BOOLEAN, tailActual : BOOLEAN]
    [] handler = "on_get_info" -> [throws : BOOLEAN, observedHeight : Heights]
    [] handler = "on_get_transactions" -> [throws : BOOLEAN, overreadFaults : BOOLEAN]
    [] handler = "on_send_raw_tx" ->
         [throws : BOOLEAN, handled : BOOLEAN, m_verification_failed : BOOLEAN,
          m_should_be_relayed : BOOLEAN, txParses : BOOLEAN, outputsFound : BOOLEAN,
          feeAmount : {0, 1}]
    [] handler = "on_start_mining" ->
         [throws : BOOLEAN, addressParses : BOOLEAN, minerStarts : BOOLEAN]
    [] handler = "on_stop_mining" -> [throws : BOOLEAN, minerStops : BOOLEAN]
    [] handler = "on_get_peer_list" -> [throws : BOOLEAN, whitePeers : {<<>>, <<"peer">>}]
    [] handler = "on_get_payment_id" -> [throws : BOOLEAN, randThrows : BOOLEAN]
    [] handler = "on_getblocktemplate" ->
         [throws : BOOLEAN, addressParses : BOOLEAN, templateCreated : BOOLEAN,
          keyInExtra : BOOLEAN, block_blob : BlockBlobs, hashingBlob : BOOLEAN,
          difficulty : {1}, overreadFaults : BOOLEAN]
    [] handler = "on_submitblock" ->
         [throws : BOOLEAN, bvc : BlockVerdicts]
    [] handler \in {"on_get_last_block_header", "on_get_block_header_by_height",
                    "f_on_blocks_list_json"} ->
         [throws : BOOLEAN, blockFound : BOOLEAN]
    [] handler = "on_get_block_header_by_hash" ->
         [throws : BOOLEAN, blockFound : BOOLEAN, coinbaseIsBaseInput : BOOLEAN,
          blockIndex : Heights]
    [] handler = "f_on_block_json" ->
         [throws : BOOLEAN, blockFound : BOOLEAN, coinbaseIsBaseInput : BOOLEAN,
          blockIndex : Heights, failAt : 0 .. MaxBlockJsonLookups,
          rewardInversion : BOOLEAN]
    [] handler = "f_on_transaction_json" ->
         [throws : BOOLEAN, txFound : BOOLEAN, inBlock : BOOLEAN]
    [] handler \in {"f_on_pool_json", "f_on_mempool_json",
                    "onGetTransactionHashesByPaymentId"} ->
         [throws : BOOLEAN, pool : {<<>>, <<"tx">>}]
    [] handler = "k_on_transactions_by_payment_id" ->
         [throws : BOOLEAN, ok : BOOLEAN, pool : {<<>>, <<"tx">>}]
    [] handler = "k_on_check_tx_key" ->
         [throws : BOOLEAN, addressParses : BOOLEAN, txFound : BOOLEAN,
          derivation : {"", "d1", "d2"}, scanThrows : BOOLEAN, outputs : TxOutputs]
    [] handler = "k_on_check_tx_with_view_key" ->
         [throws : BOOLEAN, addressParses : BOOLEAN, txFound : BOOLEAN,
          derivation : {"", "d1", "d2"}, scanThrows : BOOLEAN, outputs : TxOutputs,
          inBlock : BOOLEAN]
    [] handler = "on_validate_address" -> [throws : BOOLEAN, addressParses : BOOLEAN]
    [] handler = "on_verify_message" ->
         [throws : BOOLEAN, addressParses : BOOLEAN, signatureValid : BOOLEAN]
    [] OTHER -> [throws : BOOLEAN]

\* The answers that end a handler: a call that raises, a lookup that fails.
FailsWhenTrue ==
  {"throws", "randThrows", "scanThrows", "rewardInversion", "m_verification_failed",
   "overreadFaults"}
FailsWhenFalse ==
  {"ok", "handled", "m_should_be_relayed", "txParses", "outputsFound", "addressParses",
   "minerStarts", "minerStops", "templateCreated", "keyInExtra",
   "hashingBlob", "blockFound",
   "coinbaseIsBaseInput", "txFound"}

Failures(e) ==
  Cardinality({f \in DOMAIN e \cap FailsWhenTrue : e[f]})
    + Cardinality({f \in DOMAIN e \cap FailsWhenFalse : ~e[f]})
    + (IF "failAt" \in DOMAIN e /\ e.failAt # 0 THEN 1 ELSE 0)
    + (IF "derivation" \in DOMAIN e /\ e.derivation = "" THEN 1 ELSE 0)
    + (IF "bvc" \in DOMAIN e /\ e.bvc # "main" THEN 1 ELSE 0)

\* A handler stops at the first answer that fails and asks nothing after it,
\* so the answers drawn hold at most one failure: what would follow it is
\* never read.
Engines(handler) == {e \in EngineAnswers(handler) : Failures(e) <= 1}

\* The bodies a client can post to a binary or JSON endpoint: one that does
\* not decode, or the encoding of a request structure.
FlatBodies(handler) ==
  {[decodes |-> FALSE]} \cup [decodes : {TRUE}, req : Requests(handler)]

\* JSON-RPC method names a client can send: the registered ones and others.
Methods == DOMAIN jsonRpcHandlers \cup {"getblockhash", "", "shutdown"}

\* The JSON-RPC methods whose request structure is empty (nothing to load).
EmptyRequest ==
  {"getblockcount", "getcurrencyid", "getlastblockheader", "f_pool_json", "f_mempool_json"}

OptIds == {None} \cup {Some(i) : i \in Ids}

\* The envelopes a client can post to /json_rpc: one that does not parse as
\* a request (it may still carry an id), or a method call.
JsonRpcBodies ==
  [wellFormed : {FALSE}, id : OptIds]
    \cup UNION {
      UNION {
        [wellFormed : {TRUE}, id : OptIds, method : {m}, paramsLoad : {TRUE},
         req : Requests(jsonRpcHandlers[m].handler)],
        IF m \in EmptyRequest THEN {}
        ELSE [wellFormed : {TRUE}, id : OptIds, method : {m}, paramsLoad : {FALSE}]
      } : m \in DOMAIN jsonRpcHandlers}
    \cup [wellFormed : {TRUE}, id : OptIds, method : Methods \ DOMAIN jsonRpcHandlers,
          paramsLoad : BOOLEAN]

Urls ==
  DOMAIN s_handlers
    \cup {<<>>, <<"unknown">>, <<"getheight", "extra">>, <<"json_rpc", "getblockcount">>,
          <<"getinfo.bin">>}

\* -------------------------------------------------- binMethod / jsonMethod

\* What running a table entry's handler function gives: its return value, the
\* HTTP response it leaves, the collaborator calls and handler functions it
\* went through, and the exception that left it, if any.
Ran(ret, resp, cs, inv, threw) ==
  [ret |-> ret, response |-> resp, calls |-> cs, invoked |-> inv, threw |-> threw]

\* binMethod<Command>(handler) and jsonMethod<Command>(handler): decode the
\* body, run the handler, encode its response structure as the body.
\* h is what (obj->*handler)(req, res) gave.
flatEncode(codec, handler, resp, h) ==
  IF h.threw.has
    THEN Ran(FALSE, resp, h.calls, <<codec, handler>>, h.threw)
    ELSE Ran(h.ret, setBody(resp, [kind |-> codec, res |-> h.res]),
             h.calls, <<codec, handler>>, None)

flatMethod(codec, handler, body, resp, eng) ==
  IF ~body.decodes
    THEN Ran(FALSE, resp, <<>>, <<codec>>, None)
    ELSE flatEncode(codec, handler, resp, RunHandler(handler, body.req, eng))

\* ------------------------------------------------------ JSON-RPC envelope

\* JsonRpcRequest::parseRequest: raises the invalid-request error for a body
\* that is not a request, before any id is read from it.
parseRequest(body) ==
  IF ~body.wellFormed
    THEN [threw |-> Some(JsonRpcError(errInvalidRequest, "Invalid Request"))]
    ELSE [threw |-> None, id |-> body.id, method |-> body.method]

\* A fresh JsonRpcResponse.
NewJsonRpcResponse == [id |-> None, result |-> None, error |-> None]

setId(jsonResponse, id) == [jsonResponse EXCEPT !.id = id]
setResult(jsonResponse, res) == [jsonResponse EXCEPT !.result = Some(res)]
setError(jsonResponse, err) ==
  [jsonResponse EXCEPT !.error = Some([code |-> err.code, message |-> err.message])]

getBody(jsonResponse) ==
  [kind |-> "jsonrpc", jsonrpc |-> "2.0", id |-> jsonResponse.id,
   result |-> jsonResponse.result, error |-> jsonResponse.error]

\* makeMemberMethod(handler): load the params into a request structure, run
\* the handler on a response structure of its own, and set that structure as
\* the result only when the handler returned true.
\* h is what the handler gave.
memberResult(handler, jsonResponse, h) ==
  [jsonResponse |-> IF ~h.threw.has /\ h.ret
                      THEN setResult(jsonResponse, h.res) ELSE jsonResponse,
   calls |-> h.calls,
   invoked |-> <<"makeMemberMethod", handler>>,
   threw |-> h.threw]

makeMemberMethod(handler, body, jsonResponse, eng) ==
  IF ~body.paramsLoad
    THEN [jsonResponse |-> jsonResponse, calls |-> <<>>, invoked |-> <<"makeMemberMethod">>,
          threw |-> Some(JsonRpcError(errInvalidParams, "Invalid params"))]
    ELSE memberResult(handler, jsonResponse, RunHandler(handler, body.req, eng))

\* ------------------------------------------------- processJsonRpcRequest

\* Fault variant of jsonRpcHeaders: the allow-origin header is left out.
jsonRpcHeaders_typeOnly(resp) == addHeader(resp, "Content-Type", "application/json")

\* Lines 146-149: the headers set before the request is looked at.
jsonRpcHeaders(resp) ==
  LET typed == addHeader(resp, "Content-Type", "application/json") IN
  IF m_cors_domain # ""
    THEN addHeader(typed, "Access-Control-Allow-Origin", m_cors_domain)
    ELSE typed

Tried(jsonResponse, cs, inv, gate, threw) ==
  [jsonResponse |-> jsonResponse, calls |-> cs, invoked |-> inv, gate |-> gate,
   threw |-> threw]

NoGate == [consulted |-> FALSE, ready |-> FALSE]
Gate(core) == [consulted |-> TRUE, ready |-> core.ready]

\* Line 192: the handler has run (m), behind the gate when the entry has one.
jsonRpcInvoked(it, core, m) ==
  Tried(m.jsonResponse,
        (IF ~it.allowBusyCore THEN core.calls ELSE <<>>) \o m.calls,
        m.invoked,
        IF ~it.allowBusyCore THEN Gate(core) ELSE NoGate,
        m.threw)

\* Fault variant of jsonRpcDispatch: the handler is called whatever the
\* readiness check said.
jsonRpcDispatch_ungated(it, core, body, jsonResponse, eng) ==
  jsonRpcInvoked(it, core, makeMemberMethod(it.handler, body, jsonResponse, eng))

\* m is what the handler call gave; the readiness check comes after it.
gateAfter(it, core, m) ==
  IF ~it.allowBusyCore /\ ~core.ready
    THEN Tried(m.jsonResponse, m.calls \o core.calls, m.invoked, Gate(core),
               Some(JsonRpcError(CORE_RPC_ERROR_CODE_CORE_BUSY, "Core is busy")))
    ELSE jsonRpcInvoked(it, core, m)

\* Fault variant of jsonRpcDispatch: the handler is called first and the
\* readiness check made after it.
jsonRpcDispatch_gateAfter(it, core, body, jsonResponse, eng) ==
  gateAfter(it, core, makeMemberMethod(it.handler, body, jsonResponse, eng))

\* Lines 188-192: the readiness check of a registered method, then its handler.
jsonRpcDispatch(it, core, body, jsonResponse, eng) ==
  IF ~it.allowBusyCore /\ ~core.ready
    THEN Tried(jsonResponse, core.calls, <<>>, Gate(core),
               Some(JsonRpcError(CORE_RPC_ERROR_CODE_CORE_BUSY, "Core is busy")))
    ELSE jsonRpcInvoked(it, core,
                        makeMemberMethod(it.handler, body, jsonResponse, eng))

\* Fault variant of jsonRpcLookup: readiness is checked before the method is
\* looked up.
jsonRpcLookup_readinessFirst(method, body, jsonResponse, eng) ==
  IF ~isCoreReady.ready
    THEN Tried(jsonResponse, isCoreReady.calls, <<>>, Gate(isCoreReady),
               Some(JsonRpcError(CORE_RPC_ERROR_CODE_CORE_BUSY, "Core is busy")))
  ELSE IF method \notin DOMAIN jsonRpcHandlers
    THEN Tried(jsonResponse, isCoreReady.calls, <<>>, Gate(isCoreReady),
               Some(JsonRpcError(errMethodNotFound, "Method not found")))
  ELSE jsonRpcInvoked(jsonRpcHandlers[method], isCoreReady,
                      makeMemberMethod(jsonRpcHandlers[method].handler, body,
                                       jsonResponse, eng))

\* Lines 183-192: the method lookup, on the request parsed and its id copied.
jsonRpcLookup(method, body, jsonResponse, eng) ==
  IF method \notin DOMAIN jsonRpcHandlers
    THEN Tried(jsonResponse, <<>>, <<>>, NoGate,
               Some(JsonRpcError(errMethodNotFound, "Method not found")))
    ELSE jsonRpcDispatch(jsonRpcHandlers[method], isCoreReady, body, jsonResponse, eng)

\* Lines 156-157: parse the request, then copy its id to the response.
jsonRpcParsed(jsonRequest, body, eng) ==
  IF jsonRequest.threw.has
    THEN Tried(NewJsonRpcResponse, <<>>, <<>>, NoGate, jsonRequest.threw)
    ELSE jsonRpcLookup(jsonRequest.method, body,
                       setId(NewJsonRpcResponse, jsonRequest.id), eng)

\* Lines 154-192: the try block.
jsonRpcTry(body, eng) == jsonRpcParsed(parseRequest(body), body, eng)

\* Fault variant of jsonRpcCatch: a single catch clause, which makes an
\* internal error of whatever was thrown.
jsonRpcCatch_allInternal(tried) ==
  IF ~tried.threw.has THEN tried.jsonResponse
  ELSE setError(tried.jsonResponse, JsonRpcError(errInternalError, tried.threw.v.message))

\* Lines 194-198: the catch clauses. A JsonRpcError is set as the error as it
\* is; any other std::exception becomes an internal error with its message.
jsonRpcCatch(tried) ==
  IF ~tried.threw.has THEN tried.jsonResponse
  ELSE IF tried.threw.v.kind = "JsonRpcError"
    THEN setError(tried.jsonResponse, tried.threw.v)
  ELSE setError(tried.jsonResponse, JsonRpcError(errInternalError, tried.threw.v.message))

\* Lines 200-202: the body is set from the response and true is returned.
jsonRpcFinish(resp, tried) ==
  [ret |-> TRUE,
   response |-> setBody(resp, getBody(jsonRpcCatch(tried))),
   calls |-> tried.calls,
   invoked |-> <<"processJsonRpcRequest">> \o tried.invoked,
   gate |-> tried.gate,
   thrown |-> tried.threw,
   threw |-> None]

processJsonRpcRequest(body, resp, eng) ==
  jsonRpcFinish(jsonRpcHeaders(resp), jsonRpcTry(body, eng))

\* ------------------------------------------------------- processRequest

\* Fault variant of findHandler: the table is searched by the first path
\* segment, so that "/getheight/extra" finds the entry of "/getheight".
findHandler_prefix(url) ==
  IF url # <<>> /\ <<url[1]>> \in DOMAIN s_handlers
    THEN Some(s_handlers[<<url[1]>>])
    ELSE None

\* s_handlers.find(url): the entry of exactly this URL, if there is one.
findHandler(url) ==
  IF url \in DOMAIN s_handlers THEN Some(s_handlers[url]) ELSE None

\* Line 139: it->second.handler(this, request, response).
handlerFunction(entry, body, resp, eng) ==
  IF entry.codec = "jsonrpc"
    THEN processJsonRpcRequest(body, resp, eng)
    ELSE flatMethod(entry.codec, entry.handler, body, resp, eng)
           @@ [gate |-> NoGate, thrown |-> None]

\* outcome.gate is the gate of processRequest, outcome.inner the gate of the
\* JSON-RPC sub-dispatcher; outcome.ret is what the handler function returned
\* ("none" when none ran or it did not return); outcome.thrown is what was
\* thrown inside the try block of processJsonRpcRequest, outcome.escaped what
\* left processRequest as an exception.
Done(resp, cs, inv, gate, inner, ret, thrown, escaped) ==
  [response |-> resp, calls |-> cs, invoked |-> inv,
   outcome |-> [gate |-> gate, inner |-> inner, ret |-> ret, thrown |-> thrown,
                escaped |-> escaped]]

\* Line 139: the entry's handler function has run (ran); what it returned is
\* dropped.
handlerDone(entry, core, ran) ==
  Done(ran.response,
       (IF ~entry.allowBusyCore THEN core.calls ELSE <<>>) \o ran.calls,
       ran.invoked,
       IF ~entry.allowBusyCore THEN Gate(core) ELSE NoGate,
       ran.gate,
       IF ran.threw.has THEN "none" ELSE IF ran.ret THEN "true" ELSE "false",
       ran.thrown,
       ran.threw)

\* Fault variant of gateAndInvoke: the handler function is called whatever
\* the readiness check said.
gateAndInvoke_ungated(entry, core, body, eng) ==
  handlerDone(entry, core, handlerFunction(entry, body, NewResponse, eng))

\* Lines 133-139: the availability gate, then the handler function.
gateAndInvoke(entry, core, body, eng) ==
  IF ~entry.allowBusyCore /\ ~core.ready
    THEN Done(setBody(setStatus(NewResponse, STATUS_500),
                      [kind |-> "text", text |-> "Core is busy"]),
              core.calls, <<>>, Gate(core), NoGate, "none", None, None)
    ELSE handlerDone(entry, core, handlerFunction(entry, body, NewResponse, eng))

\* Lines 127-139, on the result of the table lookup.
dispatch(it, body, eng) ==
  IF ~it.has
    THEN Done(setStatus(NewResponse, STATUS_404), <<>>, <<>>, NoGate, NoGate, "none", None, None)
    ELSE gateAndInvoke(it.v, isCoreReady, body, eng)

processRequest(url, body, eng) == dispatch(findHandler(url), body, eng)

\* ---------------------------------------------------------------- actions

\* A body that is neither the encoding of a request structure nor a JSON-RPC
\* envelope.
Garbage == [decodes |-> FALSE, wellFormed |-> FALSE, id |-> None]

Bodies(url) ==
  IF url \notin DOMAIN s_handlers THEN {Garbage}
  ELSE IF s_handlers[url].codec = "jsonrpc" THEN JsonRpcBodies
  ELSE FlatBodies(s_handlers[url].handler)

NoEngine == {[throws |-> FALSE]}

\* The collaborators' answers that matter to a request: those of the handler
\* it reaches.
EnginesOf(url, body) ==
  IF url \notin DOMAIN s_handlers THEN NoEngine
  ELSE IF s_handlers[url].codec = "jsonrpc"
    THEN IF body.wellFormed /\ body.paramsLoad /\ body.method \in DOMAIN jsonRpcHandlers
           THEN Engines(jsonRpcHandlers[body.method].handler)
           ELSE NoEngine
  ELSE IF body.decodes THEN Engines(s_handlers[url].handler)
  ELSE NoEngine

NoRequest == [url |-> <<>>, body |-> [decodes |-> FALSE]]
NoOutcome ==
  [gate |-> NoGate, inner |-> NoGate, ret |-> "none", thrown |-> None, escaped |-> None]

\* m_restricted_rpc and m_view_key are not initialized by the constructor.
Init ==
  /\ m_restricted_rpc \in BOOLEAN
  /\ m_cors_domain = ""
  /\ m_fee_address = ""
  /\ m_view_key \in ViewKeys
  /\ testnet \in BOOLEAN
  /\ synchronized = FALSE
  /\ height = 1
  /\ pc = "idle"
  /\ request = NoRequest
  /\ response = NewResponse
  /\ calls = <<>>
  /\ invoked = <<>>
  /\ outcome = NoOutcome
  /\ engine = [throws |-> FALSE]

restrictRPC(is_restricted) ==
  /\ pc = "idle"
  /\ m_restricted_rpc' = is_restricted
  /\ UNCHANGED <<m_cors_domain, m_fee_address, m_view_key, node, handled>>

enableCors(domain) ==
  /\ pc = "idle"
  /\ m_cors_domain' = domain
  /\ UNCHANGED <<m_restricted_rpc, m_fee_address, m_view_key, node, handled>>

setFeeAddress(fee_address) ==
  /\ pc = "idle"
  /\ m_fee_address' = fee_address
  /\ UNCHANGED <<m_restricted_rpc, m_cors_domain, m_view_key, node, handled>>

\* A view key that is not the hex of a key is refused and changes nothing.
setViewKey(view_key) ==
  /\ pc = "idle"
  /\ m_view_key' = IF view_key = "nothex" THEN m_view_key ELSE view_key
  /\ UNCHANGED <<m_restricted_rpc, m_cors_domain, m_fee_address, node, handled>>

\* The peer-synchronization subsystem gains or loses synchronization.
SyncChange ==
  /\ pc = "idle"
  /\ synchronized' = ~synchronized
  /\ UNCHANGED <<config, testnet, height, handled>>

\* The core adds a block to the main chain.
NewBlock ==
  /\ pc = "idle"
  /\ height < MaxHeight
  /\ height' = height + 1
  /\ UNCHANGED <<config, testnet, synchronized, handled>>

\* A memory fault is no exception: nothing catches it.
MemoryFaulted(o) == o.thrown = Some(MemoryFault) \/ o.escaped = Some(MemoryFault)

\* d is what processRequest left for the request, eng the answers it drew.
\* A memory fault stops the process where it is: nothing is responded.
Handle(url, body, eng, d) ==
  /\ request' = [url |-> url, body |-> body]
  /\ engine' = eng
  /\ response' = IF MemoryFaulted(d.outcome) THEN NewResponse ELSE d.response
  /\ calls' = d.calls
  /\ invoked' = d.invoked
  /\ outcome' = d.outcome
  /\ pc' = IF MemoryFaulted(d.outcome) THEN "crashed" ELSE "done"

\* RpcServer::processRequest on one request, to completion.
ProcessRequest ==
  /\ pc = "idle"
  /\ \E url \in Urls :
       \E body \in Bodies(url) :
         \E eng \in EnginesOf(url, body) :
           Handle(url, body, eng, processRequest(url, body, eng))
  /\ UNCHANGED <<config, node>>

\* The HTTP server sends the response; the request's data is discarded.
Respond ==
  /\ pc = "done"
  /\ pc' = "idle"
  /\ request' = NoRequest
  /\ response' = NewResponse
  /\ calls' = <<>>
  /\ invoked' = <<>>
  /\ outcome' = NoOutcome
  /\ engine' = [throws |-> FALSE]
  /\ UNCHANGED <<config, node>>

Next ==
  \/ \E b \in BOOLEAN : restrictRPC(b)
  \/ \E d \in CorsDomains : enableCors(d)
  \/ \E a \in FeeAddresses : setFeeAddress(a)
  \/ \E k \in ViewKeys \cup {"nothex"} : setViewKey(k)
  \/ SyncChange
  \/ NewBlock
  \/ ProcessRequest
  \/ Respond

Spec == Init /\ [][Next]_vars

\* -------------------------------------------- f_blocks_list_json, long chains

\* A chain long enough for a list of print_blocks_count + 1 blocks that does
\* not reach height 0.
MaxListHeight == 33

ListInit ==
  /\ m_restricted_rpc = FALSE
  /\ m_cors_domain = ""
  /\ m_fee_address = ""
  /\ m_view_key = ""
  /\ testnet \in BOOLEAN
  /\ synchronized = FALSE
  /\ height = 1
  /\ pc = "idle"
  /\ request = NoRequest
  /\ response = NewResponse
  /\ calls = <<>>
  /\ invoked = <<>>
  /\ outcome = NoOutcome
  /\ engine = [throws |-> FALSE]

\* The core adds a block to the main chain.
ListNewBlock ==
  /\ pc = "idle"
  /\ height < MaxListHeight
  /\ height' = height + 1
  /\ UNCHANGED <<config, testnet, synchronized, handled>>

\* RpcServer::processRequest on a JSON-RPC request for f_blocks_list_json,
\* to completion.
ListRequest ==
  /\ pc = "idle"
  /\ \E h \in 0 .. MaxListHeight :
       \E eng \in Engines("f_on_blocks_list_json") :
         Handle(<<"json_rpc">>,
                [wellFormed |-> TRUE, id |-> Some(1), method |-> "f_blocks_list_json",
                 paramsLoad |-> TRUE, req |-> [height |-> h]],
                eng,
                processRequest(<<"json_rpc">>,
                               [wellFormed |-> TRUE, id |-> Some(1),
                                method |-> "f_blocks_list_json",
                                paramsLoad |-> TRUE, req |-> [height |-> h]],
                               eng))
  /\ UNCHANGED <<config, node>>

ListNext ==
  \/ ListNewBlock
  \/ ListRequest
  \/ Respond

ListSpec == ListInit /\ [][ListNext]_vars

\* ------------------------------------------------------------ properties

\* What a handled request looks like from outside.
Handled == pc = "done"
Ready == testnet \/ synchronized
Registered == request.url \in DOMAIN s_handlers
JsonRpcHandled == Handled /\ request.url = <<"json_rpc">>
MethodCall == JsonRpcHandled /\ request.body.wellFormed
RegisteredMethod == MethodCall /\ request.body.method \in DOMAIN jsonRpcHandlers
GateCalls == <<"currency.isTestnet", "p2p.get_payload_object", "protocol.isSynchronized">>
Called(c) == \E i \in DOMAIN calls : calls[i] = c
HasHeader(name) == \E i \in DOMAIN response.headers : response.headers[i][1] = name
ErrorIs(code, message) ==
  /\ response.body.kind = "jsonrpc"
  /\ response.body.error = Some([code |-> code, message |-> message])
\* The handler of a JSON-RPC method was entered and left by an exception.
HandlerRaised == JsonRpcHandled /\ Len(invoked) = 3 /\ outcome.thrown.has

\* C1: a request whose URL is not exactly a key of the method table gets
\* status 404; no handler is invoked, no collaborator is called and the
\* availability gate is not consulted.
C1_UnknownUrlIs404 ==
  (Handled /\ ~Registered) =>
    /\ response.status = STATUS_404
    /\ response.body = [kind |-> "empty"]
    /\ invoked = <<>>
    /\ calls = <<>>
    /\ ~outcome.gate.consulted
    /\ ~outcome.inner.consulted

\* A URL that extends a registered one has been answered with 404 on a node
\* that is ready.
C1_Witness ==
  /\ Handled
  /\ request.url = <<"getheight", "extra">>
  /\ Ready
  /\ response.status = STATUS_404

\* C2: for a registered path whose entry has allowBusyCore = false, on a node
\* that is not ready, the response is status 500 with the body "Core is
\* busy", the handler is not invoked, and the only collaborator calls are
\* those of the readiness check.
C2_GatedPathBusyIs500 ==
  (Handled /\ Registered /\ ~s_handlers[request.url].allowBusyCore /\ ~Ready) =>
    /\ response.status = STATUS_500
    /\ response.body = [kind |-> "text", text |-> "Core is busy"]
    /\ invoked = <<>>
    /\ calls = GateCalls
    /\ outcome.ret = "none"

\* A transaction that decodes was posted to /sendrawtransaction on a node
\* that is not ready, and refused.
C2_Witness ==
  /\ Handled
  /\ request.url = <<"sendrawtransaction">>
  /\ request.body.decodes
  /\ ~Ready
  /\ response.status = STATUS_500

\* C3: the readiness check says ready exactly when the node is in
\* test-network mode or the synchronization subsystem reports synchronized:
\* behind either gate, a gated path or method is refused as busy exactly when
\* neither holds.
C3_ReadyIffTestnetOrSynchronized ==
  Handled =>
    /\ outcome.gate.consulted => (outcome.gate.ready <=> Ready)
    /\ outcome.inner.consulted => (outcome.inner.ready <=> Ready)
    /\ (Registered /\ ~s_handlers[request.url].allowBusyCore) =>
         /\ outcome.gate.consulted
         /\ (response.status = STATUS_500 <=> ~Ready)
         /\ (invoked = <<>> <=> ~Ready)
    /\ (RegisteredMethod /\ ~jsonRpcHandlers[request.body.method].allowBusyCore) =>
         /\ outcome.inner.consulted
         /\ (ErrorIs(CORE_RPC_ERROR_CODE_CORE_BUSY, "Core is busy") <=> ~Ready)
         /\ (Len(invoked) = 1 <=> ~Ready)

\* An unsynchronized testnet node ran the handler of a gated JSON-RPC method.
C3_Witness ==
  /\ RegisteredMethod
  /\ request.body.method = "getlastblockheader"
  /\ testnet
  /\ ~synchronized
  /\ outcome.inner.consulted
  /\ Len(invoked) = 3
  /\ response.body.result.has

\* C4: the response to a JSON-RPC request that carries an id echoes that id,
\* when the call succeeds and when it ends in an error, an envelope that
\* does not parse as a request included.
C4_IdEchoed ==
  (JsonRpcHandled /\ request.body.id.has) =>
    /\ response.body.kind = "jsonrpc"
    /\ response.body.id = request.body.id

\* C5: a JSON-RPC request whose method is not in the handler table yields
\* the method-not-found error, whatever its params and whether or not the
\* node is ready; no handler is invoked and readiness is not checked.
C5_UnregisteredMethodNotFound ==
  (MethodCall /\ request.body.method \notin DOMAIN jsonRpcHandlers) =>
    /\ ErrorIs(errMethodNotFound, "Method not found")
    /\ ~response.body.result.has
    /\ invoked = <<"processJsonRpcRequest">>
    /\ calls = <<>>
    /\ ~outcome.inner.consulted

\* "getblockhash" (the table's key is "on_getblockhash") was called, with
\* params that load nowhere, on a node that is not ready.
C5_Witness ==
  /\ MethodCall
  /\ request.body.method = "getblockhash"
  /\ ~request.body.paramsLoad
  /\ ~Ready
  /\ ErrorIs(errMethodNotFound, "Method not found")

\* C6: for a registered JSON-RPC method whose entry has allowBusyCore =
\* false, on a node that is not ready, the handler is not invoked and the
\* response is an envelope with the request's id, no result and the error
\* (CORE_RPC_ERROR_CODE_CORE_BUSY, "Core is busy"), with HTTP status 200;
\* processJsonRpcRequest returns true.
C6_GatedMethodBusy ==
  (RegisteredMethod /\ ~jsonRpcHandlers[request.body.method].allowBusyCore /\ ~Ready) =>
    /\ response.status = STATUS_200
    /\ response.body =
         [kind |-> "jsonrpc", jsonrpc |-> "2.0", id |-> request.body.id,
          result |-> None,
          error |-> Some([code |-> CORE_RPC_ERROR_CODE_CORE_BUSY,
                          message |-> "Core is busy"])]
    /\ invoked = <<"processJsonRpcRequest">>
    /\ calls = GateCalls
    /\ outcome.ret = "true"
    /\ ~outcome.escaped.has

\* submitblock was called with an id on a node that is not ready.
C6_Witness ==
  /\ RegisteredMethod
  /\ request.body.method = "submitblock"
  /\ request.body.id.has
  /\ ~Ready
  /\ ErrorIs(CORE_RPC_ERROR_CODE_CORE_BUSY, "Core is busy")

\* C7, as stated: every failure raised by a JSON-RPC handler, structured or
\* generic, becomes an internal-error entry with the failure's message;
\* none escapes, a body is set and true is returned.
C7_EveryFailureIsInternalError ==
  HandlerRaised =>
    /\ ErrorIs(errInternalError, outcome.thrown.v.message)
    /\ outcome.ret = "true"
    /\ ~outcome.escaped.has

\* C7, as the code has it: a structured failure (JsonRpcError) raised by a
\* JSON-RPC handler is reported with its own code and message; any other
\* failure becomes an internal-error entry with the failure's message. None
\* escapes, the body is set with HTTP status 200, and true is returned.
C7_FailureIsReported ==
  HandlerRaised =>
    /\ IF outcome.thrown.v.kind = "JsonRpcError"
         THEN ErrorIs(outcome.thrown.v.code, outcome.thrown.v.message)
         ELSE ErrorIs(errInternalError, outcome.thrown.v.message)
    /\ response.status = STATUS_200
    /\ outcome.ret = "true"
    /\ ~outcome.escaped.has

\* on_submitblock raised its structured "Block not accepted" failure and the
\* response carries that code.
C7_Witness ==
  /\ HandlerRaised
  /\ request.body.method = "submitblock"
  /\ outcome.thrown.v = JsonRpcError(CORE_RPC_ERROR_CODE_BLOCK_NOT_ACCEPTED,
                                     "Block not accepted")
  /\ ErrorIs(CORE_RPC_ERROR_CODE_BLOCK_NOT_ACCEPTED, "Block not accepted")

\* C8: a JSON-RPC response never carries both a result and an error, a
\* handler that wrote part of its response structure before raising
\* included.
C8_ResultOrErrorNotBoth ==
  JsonRpcHandled =>
    /\ response.body.kind = "jsonrpc"
    /\ ~(response.body.result.has /\ response.body.error.has)
    /\ outcome.thrown.has <=> response.body.error.has

\* on_getblocktemplate raised after get_block_template had written the
\* difficulty and height of the response structure.
C8_Witness ==
  /\ HandlerRaised
  /\ request.body.method = "getblocktemplate"
  /\ Called("core.get_block_template")
  /\ outcome.thrown.v.message = "Internal error: failed to find tx pub key in coinbase extra"
  /\ response.body.error.has
  /\ ~response.body.result.has

\* C9: with a non-empty CORS domain configured, every response of
\* processJsonRpcRequest has the header Access-Control-Allow-Origin with
\* that domain, on success and on every error; with none configured the
\* header is absent.
C9_CorsOnEveryJsonRpcResponse ==
  JsonRpcHandled =>
    IF m_cors_domain # ""
      THEN \E i \in DOMAIN response.headers :
             response.headers[i] = <<"Access-Control-Allow-Origin", m_cors_domain>>
      ELSE ~HasHeader("Access-Control-Allow-Origin")

\* With the domain "*" configured, an envelope that does not parse was
\* answered with the header.
C9_Witness ==
  /\ JsonRpcHandled
  /\ ~request.body.wellFormed
  /\ m_cors_domain = "*"
  /\ response.body.error.has
  /\ HasHeader("Access-Control-Allow-Origin")

OperatorUrls == {<<"start_mining">>, <<"stop_mining">>, <<"stop_daemon">>}
RestrictedRequest == Handled /\ m_restricted_rpc /\ request.url \in OperatorUrls
MinerCalls == {"miner.start", "miner.stop"}
NetworkStackCalls ==
  {"p2p.get_payload_object", "protocol.isSynchronized", "p2p.sendStopSignal",
   "protocol.relay_transactions"}

\* C10, as stated: with restricted mode on, a request to /start_mining,
\* /stop_mining or /stop_daemon fails and its processing calls neither the
\* miner nor the network stack at all.
C10_NoMinerNoNetworkStack ==
  RestrictedRequest =>
    /\ outcome.ret # "true"
    /\ \A i \in DOMAIN calls : calls[i] \notin MinerCalls \cup NetworkStackCalls

\* C10, as the code has it: with restricted mode on, a request to
\* /start_mining, /stop_mining or /stop_daemon fails, the miner is never
\* started or stopped and no stop signal is sent; the only collaborator calls
\* are those of the availability gate, which for /start_mining and
\* /stop_mining precedes the handler and asks the network stack for the
\* synchronization state when the node is not in test-network mode.
C10_RestrictedBlocksOperatorMethods ==
  RestrictedRequest =>
    /\ outcome.ret # "true"
    /\ ~Called("miner.start") /\ ~Called("miner.stop") /\ ~Called("p2p.sendStopSignal")
    /\ calls = IF request.url = <<"stop_daemon">> THEN <<>>
               ELSE IF testnet THEN <<"currency.isTestnet">>
               ELSE GateCalls
    /\ response.body.kind = "json" =>
         response.body.res = [status |-> "Failed, restricted handle"]
    /\ response.body.kind # "json" =>
         \/ response.status = STATUS_500 /\ ~Ready
         \/ response.body.kind = "empty" /\ ~request.body.decodes

\* With restricted mode on, on_stop_mining was entered on a synchronized
\* node off testnet, after the gate had asked for the synchronization state.
C10_Witness ==
  /\ RestrictedRequest
  /\ request.url = <<"stop_mining">>
  /\ ~testnet
  /\ synchronized
  /\ invoked = <<"json", "on_stop_mining">>
  /\ Called("protocol.isSynchronized")
  /\ response.body.kind = "json"

\* A flat endpoint's handler was entered with the decoded request and returned.
FlatReturned(url) ==
  /\ Handled
  /\ request.url = url
  /\ request.body.decodes
  /\ Len(invoked) = 2
  /\ outcome.ret # "none"
Last(seq) == seq[Len(seq)]

\* C11: for a locator whose last id is not the id of the block at height 0,
\* on_get_blocks returns false with status "Failed" and no blocks, and asks
\* the engine nothing after getBlockIdByHeight(0): findBlockchainSupplement,
\* have_block and getBlock are not called.
C11_WrongTailFails ==
  (/\ FlatReturned(<<"getblocks.bin">>)
   /\ request.body.req.block_ids # <<>>
   /\ Last(request.body.req.block_ids) # getBlockIdByHeight(0)) =>
    /\ outcome.ret = "false"
    /\ response.body = [kind |-> "bin", res |-> [status |-> "Failed"]]
    /\ ~Called("core.findBlockchainSupplement")
    /\ ~Called("core.have_block")
    /\ ~Called("core.getBlock")
    /\ Last(calls) = "core.getBlockIdByHeight"

\* The locator <<2>> was refused on a chain of two blocks, where 2 is the id
\* of a block of the chain but not of the block at height 0.
C11_Witness ==
  /\ FlatReturned(<<"getblocks.bin">>)
  /\ request.body.req.block_ids = <<2>>
  /\ height = 2
  /\ outcome.ret = "false"

\* C12: for a locator that is not empty and ends in the id of the block at
\* height 0, the response of on_get_blocks has start_height + (number of
\* blocks) <= current_height, and no more blocks than
\* COMMAND_RPC_GET_BLOCKS_FAST_MAX_COUNT.
C12_SupplementWithinChainAndCap ==
  (/\ FlatReturned(<<"getblocks.bin">>)
   /\ request.body.req.block_ids # <<>>
   /\ Last(request.body.req.block_ids) = getBlockIdByHeight(0)) =>
    /\ outcome.ret = "true"
    /\ response.body.res.status = CORE_RPC_STATUS_OK
    /\ response.body.res.current_height = height
    /\ response.body.res.start_height + Len(response.body.res.blocks)
         <= response.body.res.current_height
    /\ Len(response.body.res.blocks) <= COMMAND_RPC_GET_BLOCKS_FAST_MAX_COUNT

\* The chain has more blocks after the start height than one call returns:
\* the response holds exactly the maximum.
C12_Witness ==
  /\ FlatReturned(<<"getblocks.bin">>)
  /\ outcome.ret = "true"
  /\ response.body.res.start_height = 0
  /\ height > COMMAND_RPC_GET_BLOCKS_FAST_MAX_COUNT
  /\ Len(response.body.res.blocks) = COMMAND_RPC_GET_BLOCKS_FAST_MAX_COUNT

\* The handler of a JSON-RPC method was entered; the collaborator call that
\* can throw did not.
MethodRan(method) ==
  /\ RegisteredMethod
  /\ request.body.method = method
  /\ Len(invoked) = 3
  /\ ~engine.throws

\* C13: on_submitblock answers with status OK only when the engine added the
\* block to the main chain; a block attached to another branch, or rejected,
\* gets the error (CORE_RPC_ERROR_CODE_BLOCK_NOT_ACCEPTED, "Block not
\* accepted") and no result.
C13_SubmitOkOnlyOnMainChain ==
  (RegisteredMethod /\ request.body.method = "submitblock") =>
    /\ response.body.result.has =>
         /\ Called("core.handle_incoming_block_blob")
         /\ engine.bvc = "main"
         /\ response.body.result.v = [status |-> CORE_RPC_STATUS_OK]
    /\ (MethodRan("submitblock") /\ Called("core.handle_incoming_block_blob")
          /\ engine.bvc # "main") =>
         /\ ErrorIs(CORE_RPC_ERROR_CODE_BLOCK_NOT_ACCEPTED, "Block not accepted")
         /\ ~response.body.result.has

\* A block that the engine attached to a branch other than the main chain
\* was refused.
C13_Witness ==
  /\ MethodRan("submitblock")
  /\ Called("core.handle_incoming_block_blob")
  /\ engine.bvc = "alternative"
  /\ ErrorIs(CORE_RPC_ERROR_CODE_BLOCK_NOT_ACCEPTED, "Block not accepted")

\* The handler of a JSON-RPC method was entered (whatever its end).
MethodEntered(method) ==
  /\ RegisteredMethod
  /\ request.body.method = method
  /\ Len(invoked) = 3
OnlyGateCalls == \A i \in DOMAIN calls : \E k \in DOMAIN GateCalls : calls[i] = GateCalls[k]

\* C14: when on_getblocktemplate succeeds for reserve_size = R > 0, the
\* response has reserved_offset + R <= the number of bytes of the serialized
\* block template (blocktemplate_blob holds two hex digits for each byte).
C14_ReservedRegionInsideBlob ==
  (/\ MethodEntered("getblocktemplate")
   /\ response.body.result.has
   /\ request.body.req.reserve_size > 0) =>
    /\ 2 * (response.body.result.v.reserved_offset + request.body.req.reserve_size)
         <= Len(response.body.result.v.blocktemplate_blob)
    /\ response.body.result.v.reserved_offset + request.body.req.reserve_size
         <= Len(engine.block_blob)
    /\ response.body.result.v.blocktemplate_blob = toHex(engine.block_blob)

\* A template was returned whose reserved region ends with the blob: the
\* same blob is refused for a reserve one byte larger.
C14_Witness ==
  /\ MethodEntered("getblocktemplate")
  /\ response.body.result.has
  /\ request.body.req.reserve_size > 0
  /\ response.body.result.v.reserved_offset + request.body.req.reserve_size
       = Len(engine.block_blob)

\* C15: on_getblocktemplate refuses a reserve_size above
\* TX_EXTRA_NONCE_MAX_COUNT with the error
\* CORE_RPC_ERROR_CODE_TOO_BIG_RESERVE_SIZE before the address is parsed and
\* before any engine call; and with an acceptable reserve_size, an address
\* that is empty or does not parse is refused with
\* CORE_RPC_ERROR_CODE_WRONG_WALLET_ADDRESS before get_block_template is
\* called.
C15_SizeThenAddressThenTemplate ==
  MethodEntered("getblocktemplate") =>
    /\ request.body.req.reserve_size > TX_EXTRA_NONCE_MAX_COUNT =>
         /\ ErrorIs(CORE_RPC_ERROR_CODE_TOO_BIG_RESERVE_SIZE,
                    "To big reserved size, maximum 255")
         /\ OnlyGateCalls
         /\ ~Called("currency.parseAccountAddressString")
         /\ ~Called("core.get_block_template")
    /\ (/\ request.body.req.reserve_size <= TX_EXTRA_NONCE_MAX_COUNT
        /\ request.body.req.wallet_address = "") =>
         /\ ErrorIs(CORE_RPC_ERROR_CODE_WRONG_WALLET_ADDRESS,
                    "Failed to parse wallet address")
         /\ OnlyGateCalls
    /\ (/\ request.body.req.reserve_size <= TX_EXTRA_NONCE_MAX_COUNT
        /\ request.body.req.wallet_address # ""
        /\ ~engine.throws
        /\ ~engine.addressParses) =>
         /\ ErrorIs(CORE_RPC_ERROR_CODE_WRONG_WALLET_ADDRESS,
                    "Failed to parse wallet address")
         /\ Last(calls) = "currency.parseAccountAddressString"
         /\ ~Called("core.get_block_template")
    /\ Called("core.get_block_template") =>
         /\ request.body.req.reserve_size <= TX_EXTRA_NONCE_MAX_COUNT
         /\ request.body.req.wallet_address # ""
         /\ engine.addressParses

\* A request with a reserve size above the maximum and an empty address was
\* refused for its size.
C15_Witness ==
  /\ MethodEntered("getblocktemplate")
  /\ request.body.req.reserve_size > TX_EXTRA_NONCE_MAX_COUNT
  /\ request.body.req.wallet_address = ""
  /\ ErrorIs(CORE_RPC_ERROR_CODE_TOO_BIG_RESERVE_SIZE, "To big reserved size, maximum 255")

\* What the two handlers give on the same transaction, address and engine
\* answers (so on the same key derivation), each with a key that parses.
SameProofByTxKey == k_on_check_tx_key([txid |-> "hash", txkey |-> "hash"], engine)
SameProofByViewKey ==
  k_on_check_tx_with_view_key([txid |-> "hash", view_key |-> "hash"],
                              [inBlock |-> FALSE] @@ engine)
ProofRequest ==
  /\ \/ MethodRan("check_tx_key") /\ request.body.req.txkey = "hash"
     \/ MethodRan("check_tx_with_view_key") /\ request.body.req.view_key = "hash"
  /\ request.body.req.txid = "hash"

\* C16: for the same transaction and address, k_on_check_tx_key with the
\* transaction's secret key and k_on_check_tx_with_view_key with the
\* recipient's view key, when both keys give the same key derivation, fail
\* together or return the same amount and the same matching outputs; the
\* response of the handled request carries them.
C16_TxKeyAndViewKeyAgree ==
  ProofRequest =>
    /\ SameProofByTxKey.threw = SameProofByViewKey.threw
    /\ SameProofByTxKey.ret = SameProofByViewKey.ret
    /\ response.body.result.has <=> SameProofByTxKey.ret
    /\ response.body.result.has =>
         /\ response.body.result.v.amount = SameProofByTxKey.res.amount
         /\ response.body.result.v.amount = SameProofByViewKey.res.amount
         /\ response.body.result.v.outputs = SameProofByTxKey.res.outputs
         /\ response.body.result.v.outputs = SameProofByViewKey.res.outputs

\* A proof by transaction key found two outputs of the recipient, worth 3.
C16_Witness ==
  /\ ProofRequest
  /\ request.body.method = "check_tx_key"
  /\ response.body.result.has
  /\ Len(response.body.result.v.outputs) = 2
  /\ response.body.result.v.amount = 3

\* /sendrawtransaction was handled for a transaction the engine accepted and
\* marked as to be relayed.
RelayableTx ==
  /\ FlatReturned(<<"sendrawtransaction">>)
  /\ ~engine.throws
  /\ request.body.req.tx_as_hex # "nothex"
  /\ engine.handled
  /\ ~engine.m_verification_failed
  /\ engine.m_should_be_relayed
FeeConfigured == m_fee_address # "" /\ m_view_key # ""
\* The transaction pays a strictly positive amount to the fee account.
PaysNodeFee == engine.txParses /\ engine.outputsFound /\ engine.feeAmount > 0
FeeCheckCalls ==
  {"parseAndValidateTransactionFromBinaryArray", "findOutputsToAccount",
   "currency.formatAmount"}

\* C17: with a fee address and a non-null view key set, on_send_raw_tx never
\* passes to relay_transactions an accepted, relayable transaction that pays
\* no strictly positive amount to the fee account: the status is "Not relayed
\* due to lack of node fee" and handle_incoming_tx was called before. With an
\* empty fee address or a null view key the fee check is not made and the
\* transaction is relayed.
C17_NoFeeNoRelay ==
  RelayableTx =>
    /\ \E i \in DOMAIN calls :
         /\ calls[i] = "core.handle_incoming_tx"
         /\ \A j \in 1 .. i - 1 : \E k \in DOMAIN GateCalls : calls[j] = GateCalls[k]
    /\ response.body.kind = "json"
    /\ (FeeConfigured /\ ~PaysNodeFee) =>
         /\ ~Called("protocol.relay_transactions")
         /\ response.body.res.status = "Not relayed due to lack of node fee"
    /\ ~FeeConfigured =>
         /\ \A c \in FeeCheckCalls : ~Called(c)
         /\ Last(calls) = "protocol.relay_transactions"
         /\ response.body.res.status = CORE_RPC_STATUS_OK

\* A relayable transaction whose outputs to the fee account add up to 0 was
\* kept from the network by a node with fee address and view key.
C17_Witness ==
  /\ RelayableTx
  /\ FeeConfigured
  /\ engine.txParses /\ engine.outputsFound /\ engine.feeAmount = 0
  /\ response.body.res.status = "Not relayed due to lack of node fee"

\* The handler function of a flat endpoint was called with a body that does
\* not decode.
DecodeFailed ==
  /\ Handled
  /\ Registered
  /\ request.url # <<"json_rpc">>
  /\ Len(invoked) >= 1
  /\ ~request.body.decodes

\* C18: when the body of a request to a flat endpoint fails to decode, the
\* typed handler is not run, no collaborator is called by the handler
\* function, no response body is encoded, and the HTTP response carries a
\* failure status, not the success status.
C18_DecodeFailureIsReported ==
  DecodeFailed =>
    /\ Len(invoked) = 1
    /\ OnlyGateCalls
    /\ response.body = [kind |-> "empty"]
    /\ outcome.ret = "false"
    /\ response.status # STATUS_200

\* C19: when the engine's selection of outputs fails, the response of
\* on_get_random_outs has the status "Failed" and an empty outs list, whatever
\* the engine wrote to the response before it failed.
C19_FailedSelectionHasNoOuts ==
  (/\ FlatReturned(<<"getrandom_outs.bin">>)
   /\ ~engine.throws
   /\ ~engine.ok) =>
    /\ response.body.kind = "bin"
    /\ response.body.res.status = "Failed"
    /\ response.body.res.outs = <<>>

\* A JSON-RPC request for getblockcount whose envelope and params decode, on
\* a node whose engine answers.
BlockCountRequest ==
  /\ RegisteredMethod
  /\ request.body.method = "getblockcount"
  /\ request.body.paramsLoad
  /\ ~engine.throws

\* C20: a well-formed JSON-RPC getblockcount request with id X on a node of
\* blockchain height H yields a response with id X, result count = H and
\* status "OK", and no error, whether or not the node is ready: the readiness
\* check is not made for getblockcount.
C20_BlockCountIsHeight ==
  BlockCountRequest =>
    /\ response.body.kind = "jsonrpc"
    /\ response.body.id = request.body.id
    /\ response.body.result = Some([status |-> CORE_RPC_STATUS_OK, count |-> height])
    /\ response.body.error = None
    /\ calls = get_current_blockchain_height
    /\ outcome.ret = "true"

\* getblockcount with id 1 was answered with count 2 by a node that is not
\* ready.
C20_Witness ==
  /\ BlockCountRequest
  /\ ~Ready
  /\ request.body.id = Some(1)
  /\ height = 2
  /\ response.body.id = Some(1)
  /\ response.body.result.has
  /\ response.body.result.v.count = 2

\* The handler of on_getblockhash ran with exactly one parameter.
BlockHashRequest ==
  /\ MethodRan("on_getblockhash")
  /\ Len(request.body.req.params) = 1
\* The chain has a block at the height the parameter states.
BlockAtParam ==
  /\ request.body.req.params[1].hi = 0
  /\ request.body.req.params[1].lo < height

\* C21: on_getblockhash with exactly one parameter h returns the hex of the
\* id of the canonical block at height h; with a number of parameters other
\* than one it fails with the wrong-parameter error without calling the
\* engine; when there is no block at height h it fails with the
\* too-big-height error and returns no hash.
C21_BlockHashAtHeight ==
  /\ (MethodRan("on_getblockhash") /\ Len(request.body.req.params) # 1) =>
       /\ ErrorIs(CORE_RPC_ERROR_CODE_WRONG_PARAM, "Wrong parameters, expected height")
       /\ ~response.body.result.has
       /\ OnlyGateCalls
  /\ (BlockHashRequest /\ BlockAtParam) =>
       /\ response.body.error = None
       /\ response.body.result =
            Some([hash |-> podToHex(getBlockIdByHeight(request.body.req.params[1].lo))])
  /\ (BlockHashRequest /\ ~BlockAtParam) =>
       /\ ErrorIs(CORE_RPC_ERROR_CODE_TOO_BIG_HEIGHT, "To big height")
       /\ ~response.body.result.has

\* /sendrawtransaction was handled and its handler returned.
SendRawTxReturned == FlatReturned(<<"sendrawtransaction">>) /\ ~engine.throws
\* The transaction went no further than the engine's verdict: the blob is
\* not hex, handle_incoming_tx failed, verification failed, or the engine
\* marked it as not to be relayed.
TxRefused ==
  \/ request.body.req.tx_as_hex = "nothex"
  \/ ~engine.handled
  \/ engine.m_verification_failed
  \/ ~engine.m_should_be_relayed
RelayCount == Cardinality({i \in DOMAIN calls : calls[i] = "protocol.relay_transactions"})

\* C22: on_send_raw_tx calls relay_transactions at most once for a request,
\* and calls it if and only if the response status is OK; a blob that is not
\* hex, a failed handle_incoming_tx, a failed verification and a transaction
\* marked as not to be relayed are never relayed, and the handler returns
\* true with a status other than OK for each.
C22_RelayedIffOk ==
  SendRawTxReturned =>
    /\ RelayCount <= 1
    /\ RelayCount = 1 <=> response.body.res.status = CORE_RPC_STATUS_OK
    /\ TxRefused =>
         /\ RelayCount = 0
         /\ outcome.ret = "true"
         /\ response.body.res.status # CORE_RPC_STATUS_OK

\* A transaction whose verification failed was answered "Failed", with
\* transport success and without a relay.
C22_Witness ==
  /\ SendRawTxReturned
  /\ request.body.req.tx_as_hex # "nothex"
  /\ engine.handled
  /\ engine.m_verification_failed
  /\ outcome.ret = "true"
  /\ response.body.res.status = "Failed"
  /\ RelayCount = 0

\* What an exact search for pat in buf returns: the offset of the first
\* occurrence, -1 when there is none.
Occurrences(buf, pat) ==
  {i \in 0 .. Len(buf) - Len(pat) : SubSeq(buf, i + 1, i + Len(pat)) = pat}
FirstOccurrence(buf, pat) ==
  IF Occurrences(buf, pat) = {} THEN -1
  ELSE CHOOSE i \in Occurrences(buf, pat) : \A k \in Occurrences(buf, pat) : i <= k

\* getblocktemplate was called on a ready node with a reserve size above 0
\* and within the limit and an address that parses, and the engine made a
\* template with a transaction public key in the coinbase extra and gives
\* its hashing blob: the handler came to look for the key in the blob.
KeySearched ==
  /\ pc # "idle"
  /\ request.url = <<"json_rpc">>
  /\ request.body.wellFormed
  /\ request.body.method = "getblocktemplate"
  /\ request.body.paramsLoad
  /\ Ready
  /\ 0 < request.body.req.reserve_size
  /\ request.body.req.reserve_size <= TX_EXTRA_NONCE_MAX_COUNT
  /\ request.body.req.wallet_address # ""
  /\ ~engine.throws
  /\ engine.addressParses
  /\ engine.templateCreated
  /\ engine.keyInExtra
  /\ engine.hashingBlob
KeyAt == FirstOccurrence(engine.block_blob, TxPubKey)
RegionFits ==
  KeyAt + Len(TxPubKey) + 3 + request.body.req.reserve_size <= Len(engine.block_blob)

HeaderReturned ==
  /\ RegisteredMethod
  /\ request.body.method \in {"getlastblockheader", "getblockheaderbyhash",
                              "getblockheaderbyheight"}
  /\ response.body.result.has
BlockJsonReturned ==
  /\ RegisteredMethod
  /\ request.body.method = "f_block_json"
  /\ response.body.result.has
DepthInChain(view) ==
  /\ view.depth = height - view.height - 1
  /\ 0 <= view.depth
  /\ view.depth < height

\* C24: in every header view filled by fill_block_header_response, depth =
\* current height - height - 1 with no unsigned wrap-around, so that
\* 0 <= depth < current height, also for a block found by hash whose coinbase
\* records a height not below the current height.
C24_DepthWithoutWrap ==
  /\ HeaderReturned => DepthInChain(response.body.result.v.block_header)
  /\ BlockJsonReturned => DepthInChain(response.body.result.v.block)

\* The handler of f_blocks_list_json ran on an engine that finds its blocks.
BlocksListRan ==
  /\ MethodRan("f_blocks_list_json")
  /\ engine.blockFound
ListedFrom == request.body.req.height
ListedTo == IF ListedFrom <= 30 THEN 0 ELSE ListedFrom - 30

\* C25: f_on_blocks_list_json ends for every request: for a height h below
\* the current height it returns min(h, 30) + 1 summaries, of heights going
\* down by one from h to max(h - 30, 0), for h <= 30 too; for h at or above
\* the current height it fails with the too-big-height error and reads no
\* block.
C25_ListIsLastThirtyOne ==
  BlocksListRan =>
    IF ListedFrom < height
      THEN /\ response.body.error = None
           /\ response.body.result.has
           /\ response.body.result.v.status = CORE_RPC_STATUS_OK
           /\ Len(response.body.result.v.blocks)
                = (IF ListedFrom < 30 THEN ListedFrom ELSE 30) + 1
           /\ \A k \in DOMAIN response.body.result.v.blocks :
                response.body.result.v.blocks[k] = ListedFrom - (k - 1)
           /\ Last(response.body.result.v.blocks) = ListedTo
      ELSE /\ ErrorIs(CORE_RPC_ERROR_CODE_TOO_BIG_HEIGHT, "To big height")
           /\ ~response.body.result.has
           /\ ~Called("core.getBlockIdByHeight")
           /\ ~Called("core.getBlockByHash")

\* The list from height 32 on a chain of 33 blocks has 31 summaries and ends
\* at height 2.
C25_Witness ==
  /\ BlocksListRan
  /\ height = 33
  /\ ListedFrom = 32
  /\ response.body.result.has
  /\ Len(response.body.result.v.blocks) = 31
  /\ Last(response.body.result.v.blocks) = 2

\* /gettransactions reached its handler with a list of hashes, on an engine
\* that answers.
TransactionsAsked ==
  /\ pc # "idle"
  /\ request.url = <<"gettransactions">>
  /\ request.body.decodes
  /\ Ready
  /\ ~engine.throws
MalformedHashes ==
  {i \in DOMAIN request.body.req.txs_hashes : request.body.req.txs_hashes[i] # "hash"}

\* C26: in on_get_transactions, if a requested hash is not hex or decodes to
\* a length other than the hash size, the response status is not OK and the
\* engine is not queried with a hash built from that entry; the status is OK
\* only when every requested hash is well-formed.
C26_MalformedHashNotQueried ==
  (TransactionsAsked /\ MalformedHashes # {}) =>
    /\ pc = "done"
    /\ outcome.ret = "true"
    /\ response.body.res.status # CORE_RPC_STATUS_OK
    /\ \A k \in DOMAIN response.body.res.queried :
         response.body.res.queried[k] = "hash"

====
